---- MODULE Spec2Model ----
(***************************************************************************)
(* Model of the water-bot scraper: the SQLite river repository             *)
(* (internal/repository), the refresh use case (internal/usecases), the    *)
(* hourly scheduler of cmd/scrapper and the HTML table adapters of         *)
(* internal/integration.                                                   *)
(***************************************************************************)
EXTENDS Integers, Sequences, FiniteSets, TLC

(***************************************************************************)
(* Bounds of the model.                                                    *)
(***************************************************************************)
MaxWorkers == 2     \* goroutines that may run RefreshRiverData at one time
MaxTicks == 2       \* hourly cron ticks that are explored

Workers == 1..MaxWorkers

NoWriter == 0

(***************************************************************************)
(* time.Time values.  A timestamp is a civil clock reading together with   *)
(* the zone offset it was built in (hours); the instant it denotes is      *)
(* civil - off.                                                            *)
(***************************************************************************)
Time(c, o) == [civil |-> c, off |-> o]

Instant(t) == t.civil - t.off

\* 08:00 Europe/Belgrade (summer, +02:00): the bulletin time of the primary page
Belgrade8 == Time(8, 2)
\* 07:00 UTC: time.Now() of a process whose local zone is UTC, and the
\* single-station page, which is parsed in UTC
Utc7 == Time(7, 0)
\* 09:00 Europe/Sarajevo (+02:00): the bulletin time of the regional page
Sarajevo9 == Time(9, 2)

Times == {Belgrade8, Utc7, Sarajevo9}

(***************************************************************************)
(* The driver binds a time.Time as the text "2006-01-02 15:04:05-07:00";   *)
(* the text is modelled as the pair <<civil, offset>>, which SQLite        *)
(* compares as text: civil reading first, offset suffix second.            *)
(***************************************************************************)
FormatTime(t) == <<t.civil, t.off>>

ParseTime(s) == Time(s[1], s[2])

TextLess(a, b) == a[1] < b[1] \/ (a[1] = b[1] /\ a[2] < b[2])

(***************************************************************************)
(* entities.RiverData                                                      *)
(***************************************************************************)
RiverData(river, station, level, change, discharge, temp, tendency, ts) ==
    [ID |-> 0, River |-> river, Station |-> station, WaterLevel |-> level,
     WaterChange |-> change, Discharge |-> discharge, WaterTemp |-> temp,
     Tendency |-> tendency, Timestamp |-> ts]

SeqsUpTo(S, n) == UNION {[1..k -> S] : k \in 0..n}

(***************************************************************************)
(* The river_data table.  A row is                                         *)
(*   [id, river, station, water_level, water_temp, timestamp]              *)
(* with timestamp the bound text; a store is the table together with the   *)
(* AUTOINCREMENT counter (sqlite_sequence).                                *)
(***************************************************************************)
EmptyStore == [rows |-> {}, seq |-> 0]

SameKey(row, rd) ==
    /\ row.river = rd.River
    /\ row.station = rd.Station
    /\ row.timestamp = FormatTime(rd.Timestamp)

\* Upsert without the conflict clause and the unique index: a plain INSERT
UpsertAlwaysInserts(st, rd) ==
    [rows |-> st.rows \cup
                {[id |-> st.seq + 1, river |-> rd.River, station |-> rd.Station,
                  water_level |-> rd.WaterLevel, water_temp |-> rd.WaterTemp,
                  timestamp |-> FormatTime(rd.Timestamp)]},
     seq |-> st.seq + 1]

\* INSERT ... ON CONFLICT(river, station, timestamp) DO UPDATE SET
\* water_level = excluded.water_level, water_temp = excluded.water_temp.
\* The rowid is drawn before the conflict is detected, so the counter
\* advances on an update as well.
Upsert(st, rd) ==
    LET hit == {row \in st.rows : SameKey(row, rd)}
        new == [id |-> st.seq + 1, river |-> rd.River, station |-> rd.Station,
                water_level |-> rd.WaterLevel, water_temp |-> rd.WaterTemp,
                timestamp |-> FormatTime(rd.Timestamp)]
    IN  IF hit = {}
        THEN [rows |-> st.rows \cup {new}, seq |-> st.seq + 1]
        ELSE [rows |-> (st.rows \ hit) \cup
                         {[row EXCEPT !.water_level = rd.WaterLevel,
                                      !.water_temp = rd.WaterTemp] : row \in hit},
              seq |-> st.seq + 1]

\* The loop of SaveRiverData over the batch, on the transaction's view
RECURSIVE ExecFrom(_, _, _)
ExecFrom(st, batch, k) ==
    IF k > Len(batch) THEN st ELSE ExecFrom(Upsert(st, batch[k]), batch, k + 1)

\* A SaveRiverData call that commits
SaveAll(st, batch) == ExecFrom(st, batch, 1)

(***************************************************************************)
(* Text collation of the names that occur (ORDER BY station / river).      *)
(***************************************************************************)
Collation == <<"BANJA LUKA", "DEGURIC", "DUNAV", "GRADAC", "S1", "S2", "VRBAS">>

Rank(name) == CHOOSE k \in 1..Len(Collation) : Collation[k] = name

\* rows.Scan into entities.RiverData: the columns the table has
Scan(row) ==
    [ID |-> row.id, River |-> row.river, Station |-> row.station,
     WaterLevel |-> row.water_level, WaterChange |-> "", Discharge |-> "",
     WaterTemp |-> row.water_temp, Tendency |-> "",
     Timestamp |-> ParseTime(row.timestamp)]

\* SELECT river, station, MAX(timestamp) ... GROUP BY river, station
IsGroupMax(rows, row) ==
    \A other \in rows :
        (other.river = row.river /\ other.station = row.station)
            => ~TextLess(row.timestamp, other.timestamp)

RECURSIVE OrderByStation(_)
OrderByStation(rows) ==
    IF rows = {} THEN <<>>
    ELSE LET first == CHOOSE r \in rows :
                        \A o \in rows :
                            \/ Rank(r.station) < Rank(o.station)
                            \/ (Rank(r.station) = Rank(o.station) /\ r.id <= o.id)
         IN  <<Scan(first)>> \o OrderByStation(rows \ {first})

GetRiverDataByName(st, riverName) ==
    LET ofRiver == {row \in st.rows : row.river = riverName}
    IN  OrderByStation({row \in ofRiver : IsGroupMax(ofRiver, row)})

RECURSIVE OrderByRiver(_)
OrderByRiver(names) ==
    IF names = {} THEN <<>>
    ELSE LET first == CHOOSE r \in names : \A o \in names : Rank(r) <= Rank(o)
         IN  <<first>> \o OrderByRiver(names \ {first})

\* GetUniqueRivers with the rows of the newest timestamp of the whole table
GetUniqueRiversGlobalMax(st) ==
    OrderByRiver({row.river : row \in
                    {r \in st.rows : \A o \in st.rows : ~TextLess(r.timestamp, o.timestamp)}})

\* SELECT DISTINCT river ... WHERE (river, station, timestamp) IN
\* (SELECT river, station, MAX(timestamp) ... GROUP BY river, station)
\* ORDER BY river
GetUniqueRivers(st) ==
    OrderByRiver({row.river : row \in {r \in st.rows : IsGroupMax(st.rows, r)}})

(***************************************************************************)
(* What the three adapters may hand to RefreshRiverData.  An adapter       *)
(* either fails or returns the Records of the page it read.                *)
(***************************************************************************)
Fetched(recs) == [failed |-> FALSE, recs |-> recs]

Failed == [failed |-> TRUE, recs |-> <<>>]

\* the errors RefreshRiverData returns
ErrFetchGeneral == "failed to fetch general water data"

ErrSave == "failed to save data to repository"

Dunav(station, level, ts) == RiverData("DUNAV", station, level, "+2", "1500", "15.5", "rising", ts)

\* FetchWaterData on the explored pages.  Every row of a page carries the
\* page's timestamp (ExtractTimestamp): the bulletin time, or time.Now() when
\* the phrase is not found.  The second page lists one station twice.
PrimaryResults ==
    { <<Dunav("S1", "100", Belgrade8), Dunav("S2", "100", Belgrade8)>>,
      <<Dunav("S1", "100", Belgrade8), Dunav("S1", "120", Belgrade8)>>,
      <<Dunav("S1", "140", Utc7)>> }

GradacResults ==
    { <<RiverData("GRADAC", "DEGURIC", "55", "", "", "", "", Utc7)>> }

RhmzRsResults ==
    { <<RiverData("VRBAS", "BANJA LUKA", "200", "-3", "", "12", "falling", Sarajevo9)>> }

Rivers == {"DUNAV", "GRADAC", "VRBAS"}

(***************************************************************************)
(* State                                                                   *)
(***************************************************************************)
VARIABLES
    db,          \* the committed content of the database file
    writer,      \* the transaction holding the database write lock
    pc,          \* where each goroutine stands in RefreshRiverData
    data,        \* RefreshRiverData's batch
    gradacData,  \* the result of FetchGradacRiverData
    rhmzRsData,  \* the result of FetchRhmzRsData
    idx,         \* position of SaveRiverData's loop in the batch
    tx,          \* the open transaction's view of the database
    failed,      \* the adapters whose fetch returned an error
    err,         \* the error RefreshRiverData returns
    cronStarted, \* c.Start() has been called
    ticks,       \* hourly ticks so far
    reply,       \* what the bot's last repository query returned
    doc,         \* the document an adapter has fetched and parsed
    parsePc,     \* where the adapter stands: "idle", "get", "rows" or "done"
    visited,     \* table rows the adapter's Each callback has visited
    records,     \* the adapter's data slice
    rowCount,    \* FetchWaterData's rowCount
    currentRiver, \* FetchRhmzRsData's currentRiver
    headerPassed, \* FetchRhmzRsData's headerPassed
    fetchErr,    \* the error the adapter returns
    page,        \* the texts of the elements ExtractTimestamp's selector matches
    stampPc,     \* where ExtractTimestamp stands: "idle", "find", "parse" or "done"
    timestampText, \* ExtractTimestamp's timestampText
    now,         \* what time.Now() returned
    timestamp,   \* ExtractTimestamp's timestamp
    timestampStr, \* GetLastUpdateTime's timestampStr, a sql.NullString
    lastPc,      \* where GetLastUpdateTime stands: "idle", "query", "parse" or "done"
    lastUpdate,  \* the time GetLastUpdateTime returns
    lastUpdateErr, \* the error GetLastUpdateTime returns
    resp,        \* the response to the adapter's request (res, resp)
    resp2,       \* the response to FetchRhmzRsData's bulletin request
    cacheData,   \* cache.data: the fetch whose result the cache holds
    cacheLastUpdate, \* cache.lastUpdate
    mutexReaders, \* the callers holding cache.mutex for reading
    mutexWriter, \* the caller holding cache.mutex for writing
    callPc,      \* where each caller stands in GetCachedData
    callData,    \* GetCachedData's data
    callLastUpdate, \* GetCachedData's lastUpdate
    callErr,     \* the error GetCachedData returns
    fetchCount,  \* calls of FetchWaterData started so far
    wall,        \* the wall clock, in half hours
    written,     \* the (data, lastUpdate) pairs the critical section has stored
    phrase       \* whether each bulletin page carries a readable time phrase

refreshVars == <<db, writer, pc, data, gradacData, rhmzRsData, failed, idx, tx, err,
                 cronStarted, ticks, reply>>

parseVars == <<doc, parsePc, visited, records, rowCount, currentRiver, headerPassed,
               fetchErr>>

stampVars == <<page, stampPc, timestampText, now, timestamp>>

lastVars == <<timestampStr, lastPc, lastUpdate, lastUpdateErr>>

httpVars == <<resp, resp2>>

cacheVars == <<cacheData, cacheLastUpdate, mutexReaders, mutexWriter, callPc, callData,
               callLastUpdate, callErr, fetchCount, wall, written>>

sourceVars == <<phrase>>

vars == <<refreshVars, parseVars, stampVars, lastVars, httpVars, cacheVars, sourceVars>>

NoReply == [query |-> "", arg |-> "", rows |-> <<>>]

NoTx == [rows |-> {}, seq |-> -1]

NoData == <<>>

\* main() of cmd/scrapper: the repository is opened on a fresh file and the
\* main goroutine is about to run the initial refresh
InitRefresh ==
    /\ db = EmptyStore
    /\ writer = NoWriter
    /\ pc = [w \in Workers |-> IF w = 1 THEN "fetchPrimary" ELSE "idle"]
    /\ data = [w \in Workers |-> NoData]
    /\ gradacData = [w \in Workers |-> NoData]
    /\ rhmzRsData = [w \in Workers |-> NoData]
    /\ failed = [w \in Workers |-> {}]
    /\ idx = [w \in Workers |-> 0]
    /\ tx = [w \in Workers |-> NoTx]
    /\ err = [w \in Workers |-> ""]
    /\ cronStarted = FALSE
    /\ ticks = 0
    /\ reply = NoReply

NoDoc == [stamp |-> Time(0, 0), rows |-> <<>>]

\* no adapter is parsing a page
InitParse ==
    /\ doc = NoDoc
    /\ parsePc = "idle"
    /\ visited = 0
    /\ records = <<>>
    /\ rowCount = 0
    /\ currentRiver = ""
    /\ headerPassed = FALSE
    /\ fetchErr = ""

\* time.Time{}
ZeroTime == [year |-> 1, month |-> 1, day |-> 1, hour |-> 0, minute |-> 0, second |-> 0,
             loc |-> "UTC"]

\* ExtractTimestamp is not running
InitStamp ==
    /\ page = <<>>
    /\ stampPc = "idle"
    /\ timestampText = <<>>
    /\ now = ZeroTime
    /\ timestamp = ZeroTime

\* a sql.NullString that holds NULL
NullString == [Valid |-> FALSE, String |-> <<>>]

\* GetLastUpdateTime is not running
InitLast ==
    /\ timestampStr = NullString
    /\ lastPc = "idle"
    /\ lastUpdate = ZeroTime
    /\ lastUpdateErr = ""

\* what the model holds for a request that has not been made
NoResponse == [StatusCode |-> 0]

\* http.StatusOK
StatusOK == 200

\* the status codes a source answers with
StatusCodes == {200, 404, 503}

Responses == {[StatusCode |-> code] : code \in StatusCodes}

\* no request has been made
InitHttp ==
    /\ resp = NoResponse
    /\ resp2 = NoResponse

\* var cache = DataCache{data: nil, lastUpdate: time.Time{}}; no caller yet
MaxCallers == 2     \* goroutines that may call GetCachedData

Callers == 1..MaxCallers

NilData == 0

ZeroLastUpdate == 0

NoCaller == 0

InitCache ==
    /\ cacheData = NilData
    /\ cacheLastUpdate = ZeroLastUpdate
    /\ mutexReaders = {}
    /\ mutexWriter = NoCaller
    /\ callPc = [c \in Callers |-> "idle"]
    /\ callData = [c \in Callers |-> NilData]
    /\ callLastUpdate = [c \in Callers |-> ZeroLastUpdate]
    /\ callErr = [c \in Callers |-> ""]
    /\ fetchCount = 0
    /\ wall = 1
    /\ written = {}

\* the pages with a bulletin time that falls back on time.Now()
BulletinPages == {"primary", "rhmzrs"}

\* the pages as published: each carries its time phrase
InitSources == phrase = [p \in BulletinPages |-> TRUE]

Init == InitRefresh /\ InitParse /\ InitStamp /\ InitLast /\ InitHttp /\ InitCache /\ InitSources

(***************************************************************************)
(* The scheduler of cmd/scrapper                                           *)
(***************************************************************************)
\* Return with log.Fatalf in place of log.Printf: an error ends the process
ReturnFatal(w) ==
    /\ pc[w] = "returned"
    /\ pc' = IF err[w] # "" THEN [v \in Workers |-> "exited"] ELSE [pc EXCEPT ![w] = "idle"]
    /\ data' = [data EXCEPT ![w] = NoData]
    /\ gradacData' = [gradacData EXCEPT ![w] = NoData]
    /\ rhmzRsData' = [rhmzRsData EXCEPT ![w] = NoData]
    /\ failed' = [failed EXCEPT ![w] = {}]
    /\ idx' = [idx EXCEPT ![w] = 0]
    /\ err' = [err EXCEPT ![w] = ""]
    /\ UNCHANGED <<sourceVars, cacheVars, httpVars, lastVars, stampVars, parseVars, db, writer, tx, cronStarted, ticks, reply>>

\* RefreshRiverData returns to its caller, which logs an error and goes on
Return(w) ==
    /\ pc[w] = "returned"
    /\ pc' = [pc EXCEPT ![w] = "idle"]
    /\ data' = [data EXCEPT ![w] = NoData]
    /\ gradacData' = [gradacData EXCEPT ![w] = NoData]
    /\ rhmzRsData' = [rhmzRsData EXCEPT ![w] = NoData]
    /\ failed' = [failed EXCEPT ![w] = {}]
    /\ idx' = [idx EXCEPT ![w] = 0]
    /\ err' = [err EXCEPT ![w] = ""]
    /\ UNCHANGED <<sourceVars, cacheVars, httpVars, lastVars, stampVars, parseVars, db, writer, tx, cronStarted, ticks, reply>>

\* c.Start(), reached once the initial refresh has returned
CronStart ==
    /\ ~cronStarted
    /\ pc[1] = "idle"
    /\ cronStarted' = TRUE
    /\ UNCHANGED <<sourceVars, cacheVars, httpVars, lastVars, stampVars, parseVars, db, writer, pc, data, gradacData, rhmzRsData, failed, idx, tx, err, ticks, reply>>

\* "0 * * * *": the scheduler starts the job in a goroutine of its own,
\* whether or not an earlier run is still going on
Tick(w) ==
    /\ cronStarted
    /\ ticks < MaxTicks
    /\ pc[w] = "idle"
    /\ \A v \in Workers : v < w => pc[v] # "idle"
    /\ pc' = [pc EXCEPT ![w] = "fetchPrimary"]
    /\ ticks' = ticks + 1
    /\ UNCHANGED <<sourceVars, cacheVars, httpVars, lastVars, stampVars, parseVars, db, writer, data, gradacData, rhmzRsData, failed, idx, tx, err, cronStarted, reply>>

(***************************************************************************)
(* RefreshRiverData                                                        *)
(***************************************************************************)
\* FetchPrimary with the error of FetchWaterData logged and not returned
FetchPrimaryGoesOn(w) ==
    /\ pc[w] = "fetchPrimary"
    /\ \E res \in {Fetched(b) : b \in PrimaryResults} \cup {Failed} :
          /\ failed' = [failed EXCEPT ![w] = IF res.failed THEN @ \cup {"general"} ELSE @]
          /\ data' = [data EXCEPT ![w] = res.recs]
    /\ pc' = [pc EXCEPT ![w] = "fetchGradac"]
    /\ UNCHANGED <<sourceVars, cacheVars, httpVars, lastVars, stampVars, parseVars, db, writer, gradacData, rhmzRsData, idx, tx, err, cronStarted, ticks, reply>>

\* data, err := uc.scraper.FetchWaterData() returns to a refresh that stands
\* at `at`; an error ends the refresh
FetchPrimaryAt(w, at) ==
    /\ pc[w] = at
    /\ \E res \in {Fetched(b) : b \in PrimaryResults} \cup {Failed} :
          IF res.failed
          THEN /\ failed' = [failed EXCEPT ![w] = @ \cup {"general"}]
               /\ pc' = [pc EXCEPT ![w] = "returned"]
               /\ err' = [err EXCEPT ![w] = ErrFetchGeneral]
               /\ data' = data
          ELSE /\ failed' = failed
               /\ pc' = [pc EXCEPT ![w] = "fetchGradac"]
               /\ err' = err
               /\ data' = [data EXCEPT ![w] = res.recs]
    /\ UNCHANGED <<sourceVars, cacheVars, httpVars, lastVars, stampVars, parseVars, db, writer, gradacData, rhmzRsData, idx, tx, cronStarted, ticks, reply>>

FetchPrimary(w) == FetchPrimaryAt(w, "fetchPrimary")

\* FetchGradac with the error of FetchGradacRiverData returned
FetchGradacAborts(w) ==
    /\ pc[w] = "fetchGradac"
    /\ \E res \in {Fetched(b) : b \in GradacResults} \cup {Failed} :
          IF res.failed
          THEN /\ failed' = [failed EXCEPT ![w] = @ \cup {"gradac"}]
               /\ pc' = [pc EXCEPT ![w] = "returned"]
               /\ err' = [err EXCEPT ![w] = "failed to fetch GRADAC river data"]
               /\ UNCHANGED <<gradacData, data>>
          ELSE /\ failed' = failed
               /\ pc' = [pc EXCEPT ![w] = "fetchRhmzRs"]
               /\ err' = err
               /\ gradacData' = [gradacData EXCEPT ![w] = res.recs]
               /\ data' = [data EXCEPT ![w] = @ \o res.recs]
    /\ UNCHANGED <<sourceVars, cacheVars, httpVars, lastVars, stampVars, parseVars, db, writer, rhmzRsData, idx, tx, cronStarted, ticks, reply>>

\* gradacData, err := uc.scraper.FetchGradacRiverData(); an error is logged
\* and the refresh goes on, otherwise the result is appended to data
FetchGradacAt(w, at) ==
    /\ pc[w] = at
    /\ \E res \in {Fetched(b) : b \in GradacResults} \cup {Failed} :
          IF res.failed
          THEN /\ failed' = [failed EXCEPT ![w] = @ \cup {"gradac"}]
               /\ UNCHANGED <<gradacData, data>>
          ELSE /\ failed' = failed
               /\ gradacData' = [gradacData EXCEPT ![w] = res.recs]
               /\ data' = [data EXCEPT ![w] = @ \o res.recs]
    /\ pc' = [pc EXCEPT ![w] = "fetchRhmzRs"]
    /\ UNCHANGED <<sourceVars, cacheVars, httpVars, lastVars, stampVars, parseVars, db, writer, rhmzRsData, idx, tx, err, cronStarted, ticks, reply>>

FetchGradac(w) == FetchGradacAt(w, "fetchGradac")

\* rhmzRsData, err := uc.scraper.FetchRhmzRsData(); an error is logged
\* and the refresh goes on, otherwise the result is appended to data
FetchRhmzRsAt(w, at) ==
    /\ pc[w] = at
    /\ \E res \in {Fetched(b) : b \in RhmzRsResults} \cup {Failed} :
          IF res.failed
          THEN /\ failed' = [failed EXCEPT ![w] = @ \cup {"rhmzrs"}]
               /\ UNCHANGED <<rhmzRsData, data>>
          ELSE /\ failed' = failed
               /\ rhmzRsData' = [rhmzRsData EXCEPT ![w] = res.recs]
               /\ data' = [data EXCEPT ![w] = @ \o res.recs]
    /\ pc' = [pc EXCEPT ![w] = "save"]
    /\ UNCHANGED <<sourceVars, cacheVars, httpVars, lastVars, stampVars, parseVars, db, writer, gradacData, idx, tx, err, cronStarted, ticks, reply>>

FetchRhmzRs(w) == FetchRhmzRsAt(w, "fetchRhmzRs")

(***************************************************************************)
(* SaveRiverData, called by RefreshRiverData with its batch                *)
(***************************************************************************)
\* Rollback that leaves the statements executed so far in the database
RollbackKeepsWrites(w) ==
    /\ tx' = [tx EXCEPT ![w] = NoTx]
    /\ writer' = IF writer = w THEN NoWriter ELSE writer
    /\ db' = IF writer = w THEN tx[w] ELSE db

\* tx.Rollback(): the transaction's view is dropped, the committed content
\* stays as it is and the lock is released
Rollback(w) ==
    /\ tx' = [tx EXCEPT ![w] = NoTx]
    /\ writer' = IF writer = w THEN NoWriter ELSE writer
    /\ db' = db

\* SaveRiverData returns an error, which RefreshRiverData wraps and returns
SaveFails(w) ==
    /\ pc' = [pc EXCEPT ![w] = "returned"]
    /\ err' = [err EXCEPT ![w] = ErrSave]

\* tx, err := r.db.Begin(); stmt, err := tx.Prepare(...)
BeginPrepare(w) ==
    /\ pc[w] = "save"
    /\ \E ok \in BOOLEAN :
          IF ok
          THEN /\ pc' = [pc EXCEPT ![w] = IF Len(data[w]) = 0 THEN "commit" ELSE "exec"]
               /\ idx' = [idx EXCEPT ![w] = 1]
               /\ err' = err
          ELSE /\ SaveFails(w)
               /\ idx' = idx
    /\ UNCHANGED <<sourceVars, cacheVars, httpVars, lastVars, stampVars, parseVars, db, writer, data, gradacData, rhmzRsData, failed, tx, cronStarted, ticks, reply>>

\* Exec with the statement prepared on r.db instead of tx: every record is
\* written and committed on its own
ExecAutocommit(w) ==
    /\ pc[w] = "exec"
    /\ \E ok \in BOOLEAN :
          IF ok
          THEN /\ writer = NoWriter
               /\ db' = Upsert(db, data[w][idx[w]])
               /\ idx' = [idx EXCEPT ![w] = @ + 1]
               /\ pc' = [pc EXCEPT ![w] = IF idx[w] = Len(data[w]) THEN "commit" ELSE "exec"]
               /\ UNCHANGED <<writer, tx, err>>
          ELSE /\ Rollback(w)
               /\ SaveFails(w)
               /\ idx' = idx
    /\ UNCHANGED <<sourceVars, cacheVars, httpVars, lastVars, stampVars, parseVars, data, gradacData, rhmzRsData, failed, cronStarted, ticks, reply>>

\* stmt.Exec(rd...) for the record at idx.  The first write takes the
\* database write lock and sees the committed content; a failure (the lock
\* held by another transaction past the busy timeout, an I/O error) rolls back
Exec(w) ==
    /\ pc[w] = "exec"
    /\ \E ok \in BOOLEAN :
          IF ok
          THEN /\ writer \in {NoWriter, w}
               /\ writer' = w
               /\ tx' = [tx EXCEPT ![w] = Upsert(IF writer = w THEN @ ELSE db, data[w][idx[w]])]
               /\ db' = db
               /\ idx' = [idx EXCEPT ![w] = @ + 1]
               /\ pc' = [pc EXCEPT ![w] = IF idx[w] = Len(data[w]) THEN "commit" ELSE "exec"]
               /\ err' = err
          ELSE /\ Rollback(w)
               /\ SaveFails(w)
               /\ idx' = idx
    /\ UNCHANGED <<sourceVars, cacheVars, httpVars, lastVars, stampVars, parseVars, data, gradacData, rhmzRsData, failed, cronStarted, ticks, reply>>

\* tx.Commit(): the transaction's view becomes the committed content, or
\* the commit fails and the driver rolls the transaction back.  After a
\* commit RefreshRiverData goes on at `next`.
CommitTo(w, next) ==
    /\ pc[w] = "commit"
    /\ \E ok \in BOOLEAN :
          IF ok
          THEN /\ db' = IF writer = w THEN tx[w] ELSE db
               /\ tx' = [tx EXCEPT ![w] = NoTx]
               /\ writer' = IF writer = w THEN NoWriter ELSE writer
               /\ pc' = [pc EXCEPT ![w] = next]
               /\ err' = err
          ELSE /\ Rollback(w)
               /\ SaveFails(w)
    /\ UNCHANGED <<sourceVars, cacheVars, httpVars, lastVars, stampVars, parseVars, data, gradacData, rhmzRsData, failed, idx, cronStarted, ticks, reply>>

\* SaveRiverData is the last call of RefreshRiverData: return nil
Commit(w) == CommitTo(w, "returned")

(***************************************************************************)
(* The bot process, which reads the same database file                     *)
(***************************************************************************)
\* uc.GetRiverDataByName(riverName): a query sees the committed content
ReadRiver(riverName) ==
    /\ reply = NoReply
    /\ reply' = [query |-> "GetRiverDataByName", arg |-> riverName,
                 rows |-> GetRiverDataByName(db, riverName)]
    /\ UNCHANGED <<sourceVars, cacheVars, httpVars, lastVars, stampVars, parseVars, db, writer, pc, data, gradacData, rhmzRsData, failed, idx, tx, err,
                   cronStarted, ticks>>

\* the reply is formatted and sent
Reply ==
    /\ reply # NoReply
    /\ reply' = NoReply
    /\ UNCHANGED <<sourceVars, cacheVars, httpVars, lastVars, stampVars, parseVars, db, writer, pc, data, gradacData, rhmzRsData, failed, idx, tx, err,
                   cronStarted, ticks>>

Next ==
    \/ CronStart
    \/ \E w \in Workers :
          \/ Tick(w)
          \/ FetchPrimary(w)
          \/ FetchGradac(w)
          \/ FetchRhmzRs(w)
          \/ BeginPrepare(w)
          \/ Exec(w)
          \/ Commit(w)
          \/ Return(w)

Spec == Init /\ [][Next]_vars

\* the scraper process together with the bot process
NextBot ==
    \/ Next
    \/ \E riverName \in Rivers : ReadRiver(riverName)
    \/ Reply

SpecBot == Init /\ [][NextBot]_vars

(***************************************************************************)
(* The refresh with the adapters' requests in flight.  http.Get is called  *)
(* on http.DefaultClient, whose Timeout is zero: a request that was sent   *)
(* ends when the source answers or the connection fails, and nothing in    *)
(* the program ends it otherwise.                                          *)
(***************************************************************************)
Awaiting(at) ==
    CASE at = "fetchPrimary" -> "awaitPrimary"
      [] at = "fetchGradac" -> "awaitGradac"
      [] at = "fetchRhmzRs" -> "awaitRhmzRs"

\* http.Get(url): the request is sent and the goroutine waits for the answer
HttpGet(w) ==
    /\ pc[w] \in {"fetchPrimary", "fetchGradac", "fetchRhmzRs"}
    /\ pc' = [pc EXCEPT ![w] = Awaiting(pc[w])]
    /\ UNCHANGED <<sourceVars, cacheVars, httpVars, lastVars, stampVars, parseVars, db, writer, data, gradacData, rhmzRsData, failed, idx, tx, err, cronStarted, ticks, reply>>

\* the steps that depend on the source: it answers, or the connection fails
SourceNext ==
    \E w \in Workers :
        \/ FetchPrimaryAt(w, "awaitPrimary")
        \/ FetchGradacAt(w, "awaitGradac")
        \/ FetchRhmzRsAt(w, "awaitRhmzRs")

\* the steps the scraper process takes by itself
ProgramNext ==
    \/ CronStart
    \/ \E w \in Workers :
          \/ HttpGet(w)
          \/ BeginPrepare(w)
          \/ Exec(w)
          \/ Commit(w)
          \/ Return(w)

NextInFlight ==
    \/ ProgramNext
    \/ SourceNext
    \/ \E w \in Workers : Tick(w)

\* the process is scheduled: a step it can take by itself is taken
SpecInFlight == Init /\ [][NextInFlight]_vars /\ WF_vars(ProgramNext)

(***************************************************************************)
(* The adapters' table parsing.  A document is the timestamp the adapter   *)
(* extracted from it and the rows its selector matches, a row the          *)
(* sequence of its td cells.  Names are transliterated to ASCII.           *)
(***************************************************************************)
MaxPageRows == 4    \* table rows of an explored page

\* strings.TrimSpace on the cell texts that occur
TrimSpace(text) ==
    CASE text = " " -> ""
      [] text = " 100 " -> "100"
      [] text = " X " -> "X"
      [] text = " DUNAV " -> "DUNAV"
      [] OTHER -> text

\* cells.Eq(i) of goquery: the empty selection past the last cell
EmptyCell == [text |-> "", a |-> "", alt |-> ""]

Eq(cells, i) == IF i < Len(cells) THEN cells[i + 1] ELSE EmptyCell

(***************************************************************************)
(* FetchWaterData: the primary bulletin table.  A cell carries its text,   *)
(* the text of the anchor in it and the alt of the image in it.            *)
(***************************************************************************)
WaterTableRow(n, station, level) ==
    [i \in 1..n |->
        CASE i = 1 -> [text |-> " DUNAV ", a |-> "", alt |-> ""]
          [] i = 3 -> [text |-> station, a |-> station, alt |-> ""]
          [] i = 6 -> [text |-> level, a |-> "", alt |-> ""]
          [] i = 7 -> [text |-> "+2", a |-> "", alt |-> ""]
          [] i = 8 -> [text |-> "1500", a |-> "", alt |-> ""]
          [] i = 9 -> [text |-> "15.5", a |-> "", alt |-> ""]
          [] i = 10 -> [text |-> "", a |-> "", alt |-> "porast"]
          [] OTHER -> [text |-> "x", a |-> "", alt |-> ""]]

WaterTableRows ==
    {WaterTableRow(n, reading[1], reading[2]) :
        n \in {9, 10, 12}, reading \in {<<"S1", " 100 ">>, <<"S2", "120">>}}

WaterDocs ==
    {[stamp |-> Belgrade8, rows |-> rows] : rows \in SeqsUpTo(WaterTableRows, MaxPageRows)}

\* the callback of doc.Find("table tbody tr").Each with a row that has
\* more than ten cells only
WaterRowMoreThanTen(cells, stamp) ==
    IF Len(cells) > 10
    THEN <<RiverData(TrimSpace(Eq(cells, 0).text), TrimSpace(Eq(cells, 2).a),
                     TrimSpace(Eq(cells, 5).text), TrimSpace(Eq(cells, 6).text),
                     TrimSpace(Eq(cells, 7).text), TrimSpace(Eq(cells, 8).text),
                     Eq(cells, 9).alt, stamp)>>
    ELSE <<>>

\* the callback of doc.Find("table tbody tr").Each: the Records one row adds
WaterRow(cells, stamp) ==
    IF Len(cells) >= 10
    THEN <<RiverData(TrimSpace(Eq(cells, 0).text), TrimSpace(Eq(cells, 2).a),
                     TrimSpace(Eq(cells, 5).text), TrimSpace(Eq(cells, 6).text),
                     TrimSpace(Eq(cells, 7).text), TrimSpace(Eq(cells, 8).text),
                     Eq(cells, 9).alt, stamp)>>
    ELSE <<>>

\* res, err := http.Get(ws.sourceURL), the status check and
\* goquery.NewDocumentFromReader(res.Body)
FetchWaterDataGet ==
    /\ parsePc = "get"
    /\ \E r \in Responses \cup {NoResponse}, readable \in BOOLEAN :
          /\ resp' = r
          /\ IF r = NoResponse
             THEN parsePc' = "done" /\ fetchErr' = "transport"
             ELSE IF r.StatusCode # StatusOK
             THEN parsePc' = "done" /\ fetchErr' = "status"
             ELSE IF ~readable
             THEN parsePc' = "done" /\ fetchErr' = "html"
             ELSE parsePc' = "rows" /\ fetchErr' = ""
    /\ UNCHANGED <<sourceVars, cacheVars, lastVars, stampVars, refreshVars, doc, visited, records, rowCount,
                   currentRiver, headerPassed, resp2>>

\* one call of the Each callback
FetchWaterDataRow ==
    /\ parsePc = "rows"
    /\ visited < Len(doc.rows)
    /\ visited' = visited + 1
    /\ rowCount' = rowCount + 1
    /\ records' = records \o WaterRow(doc.rows[visited + 1], doc.stamp)
    /\ UNCHANGED <<sourceVars, cacheVars, httpVars, lastVars, stampVars, refreshVars, doc, parsePc, currentRiver, headerPassed, fetchErr>>

\* return data, nil
FetchWaterDataReturn ==
    /\ parsePc = "rows"
    /\ visited = Len(doc.rows)
    /\ parsePc' = "done"
    /\ UNCHANGED <<sourceVars, cacheVars, httpVars, lastVars, stampVars, refreshVars, doc, visited, records, rowCount, currentRiver, headerPassed,
                   fetchErr>>

InitWater ==
    /\ InitHttp
    /\ InitCache
    /\ InitSources
    /\ InitRefresh
    /\ InitStamp
    /\ InitLast
    /\ doc \in WaterDocs
    /\ parsePc = "get"
    /\ visited = 0
    /\ records = <<>>
    /\ rowCount = 0
    /\ currentRiver = ""
    /\ headerPassed = FALSE
    /\ fetchErr = ""

NextWater == FetchWaterDataGet \/ FetchWaterDataRow \/ FetchWaterDataReturn

SpecWater == InitWater /\ [][NextWater]_vars

(***************************************************************************)
(* FetchRhmzRsData: the regional bulletin table.  A cell is its text.      *)
(***************************************************************************)
\* cells.Eq(i).Text()
Text(cells, i) == IF i < Len(cells) THEN cells[i + 1] ELSE ""

\* the header label of the first column (RIJEKA in Cyrillic)
HeaderLabel == "RIJEKA"

\* strings.Contains(text, "Napomena") || strings.Contains(text, "Legenda")
IsFootnote(text) == text \in {"Napomena: preliminarni podaci", "Legenda"}

RhmzHeaderRow ==
    <<"RIJEKA", "STANICA", "KOTA", "VODOSTAJ", "PROMJENA", "TEMPERATURA", "PROTICAJ", "TENDENCIJA">>

RhmzDataRow(river, station, level) ==
    <<river, station, "96.10", level, "+3", "-", "-", "up">>

RhmzTableRows ==
    { RhmzHeaderRow,
      RhmzDataRow(" X ", "S1", " 100 "),
      RhmzDataRow(" ", "S2", "120"),
      RhmzDataRow(" ", "S3", "-"),
      <<"Napomena: preliminarni podaci", "", "", "">>,
      <<" X ", "S4", "120">>,
      <<" X ", "S5", "96.10", "", "-", "12.4", "-", "dot">>,
      <<" X ", "S6", "96.10", "-", "+3", "-", "410", "down">> }

RhmzDocs ==
    {[stamp |-> Sarajevo9, rows |-> rows] : rows \in SeqsUpTo(RhmzTableRows, MaxPageRows)}

\* the tendency glyphs of the bulletin (up, down and dot stand for the
\* triangle and circle characters)
Tendency(glyph) ==
    CASE glyph = "up" -> "rising"
      [] glyph = "down" -> "falling"
      [] glyph = "dot" -> "stable"
      [] OTHER -> ""

Placeholder(text) == IF text = "-" THEN "" ELSE text

\* FetchRhmzRsDataGet that requests the bulletin although the listing held
\* no link to it
FetchRhmzRsDataGetUnlinked ==
    /\ parsePc = "get"
    /\ \E r \in Responses \cup {NoResponse}, r2 \in Responses \cup {NoResponse},
          linked \in BOOLEAN, readable \in BOOLEAN :
          IF r = NoResponse
          THEN /\ resp' = r /\ resp2' = NoResponse
               /\ parsePc' = "done" /\ fetchErr' = "listing"
          ELSE IF ~linked
          THEN /\ resp' = r /\ resp2' = r2
               /\ parsePc' = "done" /\ fetchErr' = "link not found"
          ELSE IF r2 = NoResponse
          THEN /\ resp' = r /\ resp2' = r2
               /\ parsePc' = "done" /\ fetchErr' = "bulletin"
          ELSE IF ~readable
          THEN /\ resp' = r /\ resp2' = r2
               /\ parsePc' = "done" /\ fetchErr' = "html"
          ELSE /\ resp' = r /\ resp2' = r2
               /\ parsePc' = "rows" /\ fetchErr' = ""
    /\ UNCHANGED <<sourceVars, cacheVars, lastVars, stampVars, refreshVars, doc, visited, records, rowCount,
                   currentRiver, headerPassed>>

\* resp, err := http.Get(listURL), io.ReadAll and the bulletin link;
\* resp2, err := http.Get(href) and goquery.NewDocumentFromReader(resp2.Body).
\* Neither response's StatusCode is looked at: whatever body arrives is read.
FetchRhmzRsDataGet ==
    /\ parsePc = "get"
    /\ \E r \in Responses \cup {NoResponse}, r2 \in Responses \cup {NoResponse},
          linked \in BOOLEAN, readable \in BOOLEAN :
          IF r = NoResponse
          THEN /\ resp' = r /\ resp2' = NoResponse
               /\ parsePc' = "done" /\ fetchErr' = "listing"
          ELSE IF ~linked
          THEN /\ resp' = r /\ resp2' = NoResponse
               /\ parsePc' = "done" /\ fetchErr' = "link not found"
          ELSE IF r2 = NoResponse
          THEN /\ resp' = r /\ resp2' = r2
               /\ parsePc' = "done" /\ fetchErr' = "bulletin"
          ELSE IF ~readable
          THEN /\ resp' = r /\ resp2' = r2
               /\ parsePc' = "done" /\ fetchErr' = "html"
          ELSE /\ resp' = r /\ resp2' = r2
               /\ parsePc' = "rows" /\ fetchErr' = ""
    /\ UNCHANGED <<sourceVars, cacheVars, lastVars, stampVars, refreshVars, doc, visited, records, rowCount,
                   currentRiver, headerPassed>>

\* one call of the second Each callback of doc.Find("table tr")
FetchRhmzRsDataRow ==
    /\ parsePc = "rows"
    /\ visited < Len(doc.rows)
    /\ visited' = visited + 1
    /\ LET cells == doc.rows[visited + 1]
           firstCellText == TrimSpace(Text(cells, 0))
           riverName == TrimSpace(Text(cells, 0))
           river == IF riverName # "" THEN riverName ELSE currentRiver
           station == TrimSpace(Text(cells, 1))
           level == TrimSpace(Text(cells, 3))
       IN  IF Len(cells) < 4
           THEN UNCHANGED <<records, currentRiver, headerPassed>>
           ELSE IF ~headerPassed
           THEN /\ headerPassed' = (TrimSpace(Text(cells, 0)) = HeaderLabel)
                /\ UNCHANGED <<records, currentRiver>>
           ELSE IF firstCellText = "" \/ IsFootnote(firstCellText)
           THEN UNCHANGED <<records, currentRiver, headerPassed>>
           ELSE IF riverName = "" /\ currentRiver = ""
           THEN UNCHANGED <<records, currentRiver, headerPassed>>
           ELSE /\ currentRiver' = river
                /\ headerPassed' = headerPassed
                /\ records' =
                     IF station = ""
                     THEN records
                     ELSE Append(records,
                            RiverData(river, station,
                                      IF level = "-" \/ level = "" THEN "0" ELSE level,
                                      TrimSpace(Text(cells, 4)),
                                      Placeholder(TrimSpace(Text(cells, 6))),
                                      Placeholder(TrimSpace(Text(cells, 5))),
                                      Tendency(TrimSpace(Text(cells, 7))),
                                      doc.stamp))
    /\ UNCHANGED <<sourceVars, cacheVars, httpVars, lastVars, stampVars, refreshVars, doc, parsePc, rowCount, fetchErr>>

\* return data, nil
FetchRhmzRsDataReturn ==
    /\ parsePc = "rows"
    /\ visited = Len(doc.rows)
    /\ parsePc' = "done"
    /\ UNCHANGED <<sourceVars, cacheVars, httpVars, lastVars, stampVars, refreshVars, doc, visited, records, rowCount, currentRiver, headerPassed,
                   fetchErr>>

InitRhmzRs ==
    /\ InitHttp
    /\ InitCache
    /\ InitSources
    /\ InitRefresh
    /\ InitStamp
    /\ InitLast
    /\ doc \in RhmzDocs
    /\ parsePc = "get"
    /\ visited = 0
    /\ records = <<>>
    /\ rowCount = 0
    /\ currentRiver = ""
    /\ headerPassed = FALSE
    /\ fetchErr = ""

NextRhmzRs == FetchRhmzRsDataGet \/ FetchRhmzRsDataRow \/ FetchRhmzRsDataReturn

SpecRhmzRs == InitRhmzRs /\ [][NextRhmzRs]_vars

(***************************************************************************)
(* Text processing of the adapters.  A text that is taken apart is a       *)
(* sequence of characters (one-character strings); Cyrillic words are      *)
(* transliterated to ASCII.                                                *)
(***************************************************************************)
Numerals == <<"0", "1", "2", "3", "4", "5", "6", "7", "8", "9">>

IsDigit(c) == \E d \in 1..Len(Numerals) : Numerals[d] = c

DigitValue(c) == (CHOOSE d \in 1..Len(Numerals) : Numerals[d] = c) - 1

IsSpace(c) == c \in {" ", "\n", "\t"}

\* strings.HasPrefix(s[i-1:], sub)
HasAt(s, sub, i) ==
    /\ i + Len(sub) - 1 <= Len(s)
    /\ SubSeq(s, i, i + Len(sub) - 1) = sub

\* strings.Contains(s, sub)
Contains(s, sub) == \E i \in 1..Len(s) : HasAt(s, sub, i)

\* strings.Index(s, sub), counted from 1; 0 when sub does not occur
Index(s, sub) ==
    IF Contains(s, sub)
    THEN CHOOSE i \in 1..Len(s) : HasAt(s, sub, i) /\ \A j \in 1..(i - 1) : ~HasAt(s, sub, j)
    ELSE 0

\* strings.Split(s, sep)
RECURSIVE Split(_, _)
Split(s, sep) ==
    LET i == Index(s, sep)
    IN  IF i = 0
        THEN <<s>>
        ELSE <<SubSeq(s, 1, i - 1)>> \o Split(SubSeq(s, i + Len(sep), Len(s)), sep)

RECURSIVE TrimLeft(_)
TrimLeft(s) == IF s # <<>> /\ IsSpace(s[1]) THEN TrimLeft(Tail(s)) ELSE s

RECURSIVE TrimRight(_)
TrimRight(s) ==
    IF s # <<>> /\ IsSpace(s[Len(s)]) THEN TrimRight(SubSeq(s, 1, Len(s) - 1)) ELSE s

\* strings.TrimSpace on a sequence of characters
Trim(s) == TrimRight(TrimLeft(s))

\* the length of the run of non-space characters s starts with
RECURSIVE WordLen(_)
WordLen(s) == IF s = <<>> \/ IsSpace(s[1]) THEN 0 ELSE 1 + WordLen(Tail(s))

\* strings.Fields(s)
RECURSIVE Fields(_)
Fields(s) ==
    LET t == TrimLeft(s)
        n == WordLen(t)
    IN  IF t = <<>> THEN <<>> ELSE <<SubSeq(t, 1, n)>> \o Fields(SubSeq(t, n + 1, Len(t)))

(***************************************************************************)
(* fmt.Sscanf with the verbs %d and literal characters                     *)
(***************************************************************************)
RECURSIVE SkipSpace(_, _)
SkipSpace(s, i) == IF i <= Len(s) /\ s[i] = " " THEN SkipSpace(s, i + 1) ELSE i

\* the position after the run of digits that starts at i
RECURSIVE DigitsEnd(_, _)
DigitsEnd(s, i) == IF i <= Len(s) /\ IsDigit(s[i]) THEN DigitsEnd(s, i + 1) ELSE i

\* the decimal value of s[i..j-1]
RECURSIVE NumberValue(_, _, _)
NumberValue(s, i, j) ==
    IF j <= i THEN 0 ELSE NumberValue(s, i, j - 1) * 10 + DigitValue(s[j - 1])

\* %d at position i: leading spaces, a sign, digits
ScanInt(s, i) ==
    LET a == SkipSpace(s, i)
        signed == a <= Len(s) /\ s[a] \in {"+", "-"}
        b == IF signed THEN a + 1 ELSE a
        e == DigitsEnd(s, b)
        v == NumberValue(s, b, e)
    IN  [ok |-> e > b, val |-> IF signed /\ s[a] = "-" THEN 0 - v ELSE v, next |-> e]

\* a literal character of the format at position i
ScanLiteral(s, i, c) == [ok |-> i <= Len(s) /\ s[i] = c, next |-> i + 1]

NoScan == [ok |-> FALSE, a |-> 0, b |-> 0, c |-> 0]

\* fmt.Sscanf(dateStr, "%d.%d.%d.", &day, &month, &year)
SscanfDate(s) ==
    LET d == ScanInt(s, 1)
        p1 == ScanLiteral(s, d.next, ".")
        m == ScanInt(s, p1.next)
        p2 == ScanLiteral(s, m.next, ".")
        y == ScanInt(s, p2.next)
        p3 == ScanLiteral(s, y.next, ".")
    IN  IF ~d.ok THEN NoScan
        ELSE IF ~p1.ok THEN NoScan
        ELSE IF ~m.ok THEN NoScan
        ELSE IF ~p2.ok THEN NoScan
        ELSE IF ~y.ok THEN NoScan
        ELSE IF ~p3.ok THEN NoScan
        ELSE [ok |-> TRUE, a |-> d.val, b |-> m.val, c |-> y.val]

\* fmt.Sscanf(timeStr, "%d:%d", &hour, &minute)
SscanfTime(s) ==
    LET h == ScanInt(s, 1)
        p == ScanLiteral(s, h.next, ":")
        m == ScanInt(s, p.next)
    IN  IF ~h.ok THEN NoScan
        ELSE IF ~p.ok THEN NoScan
        ELSE IF ~m.ok THEN NoScan
        ELSE [ok |-> TRUE, a |-> h.val, b |-> m.val, c |-> 0]

(***************************************************************************)
(* ExtractTimestamp and parseTimestampText                                 *)
(***************************************************************************)
\* time.Date(year, month, day, hour, min, sec, 0, loc), for fields in range
Date(year, month, day, hour, minute, second, loc) ==
    [year |-> year, month |-> month, day |-> day, hour |-> hour, minute |-> minute,
     second |-> second, loc |-> loc]

IsZero(t) == t = ZeroTime

\* "Hidroloski podaci:", the label of the bulletin time
DataLabel ==
    <<"H", "i", "d", "r", "o", "l", "o", "s", "k", "i", " ",
      "p", "o", "d", "a", "c", "i", ":">>

\* "vreme:", the label of the time of day
TimeLabel == <<"v", "r", "e", "m", "e", ":">>

\* the first field that contains "."; "" when there is none
DateStrFirstField(dateFields) == IF dateFields = <<>> THEN <<>> ELSE dateFields[1]

RECURSIVE DateStr(_)
DateStr(dateFields) ==
    IF dateFields = <<>> THEN <<>>
    ELSE IF Contains(dateFields[1], <<".">>) THEN dateFields[1]
    ELSE DateStr(Tail(dateFields))

\* strings.Split(dateParts[0], ":")[1] is out of range
IndexPanics(text) ==
    /\ Contains(text, DataLabel) /\ Contains(text, TimeLabel)
    /\ Len(Split(Split(text, TimeLabel)[1], <<":">>)) < 2

parseTimestampText(text) ==
    IF Contains(text, DataLabel) /\ Contains(text, TimeLabel)
    THEN LET dateParts == Split(text, TimeLabel)
             dateText == Trim(Split(dateParts[1], <<":">>)[2])
             dateStr == DateStr(Fields(dateText))
             timeStr == Trim(Split(dateParts[2], <<"(">>)[1])
             date == SscanfDate(dateStr)
             clock == SscanfTime(timeStr)
         IN  IF ~date.ok THEN ZeroTime
             ELSE IF ~clock.ok THEN ZeroTime
             ELSE Date(date.c, date.b, date.a, clock.a, clock.b, 0, "Europe/Belgrade")
    ELSE ZeroTime

\* the last element the selector matches whose text holds the label
RECURSIVE LastMatch(_)
LastMatch(elements) ==
    IF elements = <<>> THEN <<>>
    ELSE LET later == LastMatch(Tail(elements))
             text == Trim(elements[1])
         IN  IF later # <<>> THEN later
             ELSE IF Contains(text, DataLabel) THEN text
             ELSE <<>>

\* the loop over the selectors, left at the first one that found the label
RECURSIVE FindTimestampText(_)
FindTimestampText(selections) ==
    IF selections = <<>> THEN <<>>
    ELSE LET text == LastMatch(selections[1])
         IN  IF text # <<>> THEN text ELSE FindTimestampText(Tail(selections))

\* the parts of a bulletin time line, each with the number it writes
Days == {<< <<"1", "8">>, 18 >>, << <<"0", "5">>, 5 >>}

Months == {<< <<"0", "4">>, 4 >>, << <<"1", "2">>, 12 >>}

Years == {<< <<"2", "0", "2", "5">>, 2025 >>}

Hours == {<< <<"8">>, 8 >>, << <<"0", "8">>, 8 >>, << <<"1", "4">>, 14 >>}

Minutes == {<< <<"0", "0">>, 0 >>, << <<"3", "0">>, 30 >>}

\* no day name, or "PETAK "
DayNames == {<<>>, <<"P", "E", "T", "A", "K", " ">>}

\* no annotation, or " (06:00 UTC)"
UtcNotes == {<<>>, <<" ", "(", "0", "6", ":", "0", "0", " ", "U", "T", "C", ")">>}

\* "Hidroloski podaci: [DAY] DD.MM.YYYY. vreme: H:MM[ (HH:MM UTC)]"
BulletinText(dayName, d, m, y, h, mi, note) ==
    DataLabel \o <<" ">> \o dayName \o d \o <<".">> \o m \o <<".">> \o y \o <<".", " ">>
        \o TimeLabel \o <<" ">> \o h \o <<":">> \o mi \o note

BulletinTexts ==
    {BulletinText(dayName, d[1], m[1], y[1], h[1], mi[1], note) :
        dayName \in DayNames, d \in Days, m \in Months, y \in Years, h \in Hours,
        mi \in Minutes, note \in UtcNotes}

\* time lines parseTimestampText cannot read: no label, a date without its
\* closing dot, a time that is no number, no time label, no date
OtherTexts ==
    { <<"T", "e", "s", "t">>,
      DataLabel \o <<" ", "P", "E", "T", "A", "K", " ">> \o TimeLabel \o <<" ", "8", ":", "0", "0">>,
      DataLabel \o <<" ", "1", "8", ".", "0", "4", ".", "2", "0", "2", "5", " ">>
          \o TimeLabel \o <<" ", "8", ":", "0", "0">>,
      DataLabel \o <<" ", "1", "8", ".", "0", "4", ".", "2", "0", "2", "5", ".", " ">>
          \o TimeLabel \o <<" ", "-">>,
      DataLabel \o <<" ", "1", "8", ".", "0", "4", ".", "2", "0", "2", "5", ".">> }

\* the time label ahead of the data label
PanicText == TimeLabel \o <<" ", "8", ":", "0", "0", " ">> \o DataLabel

\* s.Text() of an element: the text inside its markup's white space
Element(text) == <<"\n", " ">> \o text \o <<"\n">>

\* what the four selectors match in the explored pages
Pages ==
    {<< <<Element(text)>> >> : text \in BulletinTexts \cup OtherTexts \cup {PanicText}}
        \cup {<< <<>>, <<Element(other), Element(text)>>, <<>>, <<>> >> :
                other \in OtherTexts, text \in {t \in BulletinTexts : Len(t) <= 43}}
        \cup {<< <<>>, <<>>, <<>>, <<>> >>}

\* time.Now() in the process's local zone
Clock == {Date(2025, 4, 18, 9, 12, 33, "Local"), Date(2025, 4, 19, 0, 0, 0, "Local")}

\* timestamp := time.Now(); the loop over the selectors
ExtractTimestampFind ==
    /\ stampPc = "find"
    /\ timestamp' = now
    /\ timestampText' = FindTimestampText(page)
    /\ stampPc' = "parse"
    /\ UNCHANGED <<sourceVars, cacheVars, httpVars, lastVars, refreshVars, parseVars, page, now>>

\* if timestampText != "" { extractedTime := ws.parseTimestampText(...) }
ExtractTimestampParse ==
    /\ stampPc = "parse"
    /\ IF timestampText # <<>> /\ IndexPanics(timestampText)
       THEN /\ stampPc' = "panic"
            /\ timestamp' = timestamp
       ELSE /\ stampPc' = "done"
            /\ timestamp' =
                 IF timestampText = <<>> THEN timestamp
                 ELSE LET extractedTime == parseTimestampText(timestampText)
                      IN  IF ~IsZero(extractedTime) THEN extractedTime ELSE timestamp
    /\ UNCHANGED <<sourceVars, cacheVars, httpVars, lastVars, refreshVars, parseVars, page, timestampText, now>>

InitExtractTimestamp ==
    /\ InitHttp
    /\ InitCache
    /\ InitSources
    /\ InitRefresh
    /\ InitParse
    /\ InitLast
    /\ page \in Pages
    /\ stampPc = "find"
    /\ timestampText = <<>>
    /\ now \in Clock
    /\ timestamp = ZeroTime

NextExtractTimestamp == ExtractTimestampFind \/ ExtractTimestampParse

SpecExtractTimestamp == InitExtractTimestamp /\ [][NextExtractTimestamp]_vars

(***************************************************************************)
(* GetLastUpdateTime.  The query returns the text of MAX(timestamp) as it  *)
(* is stored; the function parses it with four layouts in turn.            *)
(***************************************************************************)
TwoDigits(n) == <<Numerals[(n \div 10) + 1], Numerals[(n % 10) + 1]>>

\* the text the driver stores for a time.Time, layout
\* "2006-01-02 15:04:05.999999999-07:00"; the model's times are whole hours
\* of 18 April 2025
StoredText(t) ==
    <<"2", "0", "2", "5", "-", "0", "4", "-", "1", "8", " ">> \o TwoDigits(t.civil)
        \o <<":", "0", "0", ":", "0", "0">>
        \o <<IF t.off < 0 THEN "-" ELSE "+">>
        \o TwoDigits(IF t.off < 0 THEN 0 - t.off ELSE t.off) \o <<":", "0", "0">>

\* n decimal digits at position i
ScanDigits(s, i, n) ==
    LET ok == i + n - 1 <= Len(s) /\ \A k \in i..(i + n - 1) : IsDigit(s[k])
    IN  [ok |-> ok, val |-> IF ok THEN NumberValue(s, i, i + n) ELSE 0, next |-> i + n]

\* a fractional second after the seconds field is accepted whatever the layout
FractionEnd(s, i) ==
    IF i + 1 <= Len(s) /\ s[i] \in {".", ","} /\ IsDigit(s[i + 1])
    THEN DigitsEnd(s, i + 1)
    ELSE i

\* time.FixedZone("", offset), offset in hours
FixedZone(offset) == [offset |-> offset]

\* the zone element of a layout at position i: none (the time is read in
\* time.Local), "-07:00" or "Z07:00"
ScanZone(s, i, zone) ==
    LET sign == ScanLiteral(s, i, "+").ok \/ ScanLiteral(s, i, "-").ok
        hh == ScanDigits(s, i + 1, 2)
        colon == ScanLiteral(s, i + 3, ":")
        mm == ScanDigits(s, i + 4, 2)
    IN  IF zone = "none" THEN [ok |-> TRUE, loc |-> "Local", next |-> i]
        ELSE IF zone = "Z07:00" /\ ScanLiteral(s, i, "Z").ok
        THEN [ok |-> TRUE, loc |-> FixedZone(0), next |-> i + 1]
        ELSE IF sign /\ hh.ok /\ colon.ok /\ mm.ok
        THEN [ok |-> TRUE,
              loc |-> FixedZone(IF s[i] = "-" THEN 0 - hh.val ELSE hh.val),
              next |-> i + 6]
        ELSE [ok |-> FALSE, loc |-> "Local", next |-> i]

\* time.Parse / time.ParseInLocation with a layout
\* "2006-01-02" sep "15:04:05" zone
ParseLayout(s, layout) ==
    LET y == ScanDigits(s, 1, 4)
        mo == ScanDigits(s, 6, 2)
        d == ScanDigits(s, 9, 2)
        h == ScanDigits(s, 12, 2)
        mi == ScanDigits(s, 15, 2)
        se == ScanDigits(s, 18, 2)
        z == ScanZone(s, FractionEnd(s, 20), layout.zone)
        ok == /\ y.ok /\ ScanLiteral(s, 5, "-").ok
              /\ mo.ok /\ ScanLiteral(s, 8, "-").ok
              /\ d.ok /\ ScanLiteral(s, 11, layout.sep).ok
              /\ h.ok /\ ScanLiteral(s, 14, ":").ok
              /\ mi.ok /\ ScanLiteral(s, 17, ":").ok
              /\ se.ok
              /\ mo.val \in 1..12 /\ d.val \in 1..31
              /\ h.val < 24 /\ mi.val < 60 /\ se.val < 60
              /\ z.ok /\ z.next = Len(s) + 1
    IN  [ok |-> ok,
         time |-> IF ok THEN Date(y.val, mo.val, d.val, h.val, mi.val, se.val, z.loc)
                  ELSE ZeroTime]

\* time.RFC3339, "2006-01-02 15:04:05" in time.Local,
\* "2006-01-02 15:04:05-07:00", "2006-01-02 15:04:05Z07:00"
Layouts ==
    << [sep |-> "T", zone |-> "Z07:00"],
       [sep |-> " ", zone |-> "none"],
       [sep |-> " ", zone |-> "-07:00"],
       [sep |-> " ", zone |-> "Z07:00"] >>

ErrParseTimestamp == "failed to parse timestamp"

\* the layouts from the k-th on, with a zero time and no error when none parses
RECURSIVE TryLayoutsSilentZero(_, _)
TryLayoutsSilentZero(s, k) ==
    IF k > Len(Layouts) THEN [time |-> ZeroTime, err |-> ""]
    ELSE LET r == ParseLayout(s, Layouts[k])
         IN  IF r.ok THEN [time |-> r.time, err |-> ""] ELSE TryLayoutsSilentZero(s, k + 1)

\* the layouts from the k-th on: the first that parses, else the error
RECURSIVE TryLayouts(_, _)
TryLayouts(s, k) ==
    IF k > Len(Layouts) THEN [time |-> ZeroTime, err |-> ErrParseTimestamp]
    ELSE LET r == ParseLayout(s, Layouts[k])
         IN  IF r.ok THEN [time |-> r.time, err |-> ""] ELSE TryLayouts(s, k + 1)

\* GetLastUpdateTime without the test for a NULL or empty MAX(timestamp)
ParseLastUpdateUnchecked(str) == TryLayouts(str.String, 1)

\* what GetLastUpdateTime returns for a scanned MAX(timestamp)
ParseLastUpdate(str) ==
    IF ~str.Valid \/ str.String = <<>>
    THEN [time |-> ZeroTime, err |-> ""]
    ELSE TryLayouts(str.String, 1)

\* SELECT MAX(timestamp) FROM river_data: NULL on an empty table
MaxTimestamp(st) ==
    IF st.rows = {} THEN NullString
    ELSE LET top == CHOOSE row \in st.rows :
                       \A other \in st.rows : ~TextLess(row.timestamp, other.timestamp)
         IN  [Valid |-> TRUE, String |-> StoredText(ParseTime(top.timestamp))]

GetLastUpdateTime(st) == ParseLastUpdate(MaxTimestamp(st))

\* the forms of timestamp text GetLastUpdateTime may find stored: the date and
\* time with "T" or a space between, with or without a fractional second,
\* followed by nothing, "Z" or an offset
ClockTexts == {<<"0", "6">>, <<"0", "8">>, <<"1", "4">>, <<"2", "3">>}

FractionTexts == {<<>>, <<".", "5">>}

ZoneTexts == {<<>>, <<"Z">>, <<"+", "0", "2", ":", "0", "0">>, <<"-", "0", "5", ":", "0", "0">>}

TimestampText(sep, hh, frac, zone) ==
    <<"2", "0", "2", "5", "-", "0", "4", "-", "1", "8", sep>> \o hh
        \o <<":", "0", "0", ":", "0", "0">> \o frac \o zone

\* texts no layout reads: another date order, no seconds, month 13, a word
UnreadableTexts ==
    { <<"1", "8", ".", "0", "4", ".", "2", "0", "2", "5", " ", "0", "8", ":", "0", "0">>,
      <<"2", "0", "2", "5", "-", "0", "4", "-", "1", "8", " ", "0", "8", ":", "0", "0">>,
      <<"2", "0", "2", "5", "-", "1", "3", "-", "1", "8", " ", "0", "8", ":", "0", "0",
        ":", "0", "0", "+", "0", "2", ":", "0", "0">>,
      <<"n", "o", "w">> }

\* the text the driver binds for the zero time.Time, which a single-station
\* row dated 01.01.0001 00:00 carries
ZeroStoredText ==
    <<"0", "0", "0", "1", "-", "0", "1", "-", "0", "1", " ", "0", "0", ":", "0", "0",
      ":", "0", "0", "+", "0", "0", ":", "0", "0">>

StoredTexts ==
    {TimestampText(sep, hh, frac, zone) :
        sep \in {" ", "T"}, hh \in ClockTexts, frac \in FractionTexts, zone \in ZoneTexts}
        \cup {StoredText(t) : t \in Times}
        \cup {ZeroStoredText}
        \cup UnreadableTexts

ErrQuery == "failed to get last update time"

\* r.db.QueryRow("SELECT MAX(timestamp) FROM river_data").Scan(&timestampStr)
GetLastUpdateTimeQuery ==
    /\ lastPc = "query"
    /\ \E res \in {[Valid |-> TRUE, String |-> s] : s \in StoredTexts \cup {<<>>}}
                    \cup {NullString} :
          /\ timestampStr' = res
          /\ lastPc' = "parse"
          /\ UNCHANGED <<lastUpdate, lastUpdateErr>>
    /\ UNCHANGED <<sourceVars, cacheVars, httpVars, refreshVars, parseVars, stampVars>>

\* the query fails with an error other than sql.ErrNoRows
GetLastUpdateTimeQueryFails ==
    /\ lastPc = "query"
    /\ lastPc' = "done"
    /\ lastUpdateErr' = ErrQuery
    /\ UNCHANGED <<sourceVars, cacheVars, httpVars, refreshVars, parseVars, stampVars, timestampStr, lastUpdate>>

\* the null check and the layouts tried in turn
GetLastUpdateTimeParse ==
    /\ lastPc = "parse"
    /\ lastUpdate' = ParseLastUpdate(timestampStr).time
    /\ lastUpdateErr' = ParseLastUpdate(timestampStr).err
    /\ lastPc' = "done"
    /\ UNCHANGED <<sourceVars, cacheVars, httpVars, refreshVars, parseVars, stampVars, timestampStr>>

InitGetLastUpdateTime ==
    /\ InitHttp
    /\ InitCache
    /\ InitSources
    /\ InitRefresh
    /\ InitParse
    /\ InitStamp
    /\ timestampStr = NullString
    /\ lastPc = "query"
    /\ lastUpdate = ZeroTime
    /\ lastUpdateErr = ""

NextGetLastUpdateTime ==
    GetLastUpdateTimeQuery \/ GetLastUpdateTimeQueryFails \/ GetLastUpdateTimeParse

SpecGetLastUpdateTime == InitGetLastUpdateTime /\ [][NextGetLastUpdateTime]_vars

(***************************************************************************)
(* RefreshRiverData as it is in the use case that also offers              *)
(* GetLastUpdateTime: the repository is asked for the last update time     *)
(* once the batch is saved.                                                *)
(***************************************************************************)
\* the save committed: RefreshRiverData goes on to uc.repo.GetLastUpdateTime()
CommitThenLastUpdate(w) == CommitTo(w, "lastUpdate")

\* if err != nil { log.Printf("Warning: ...") } else { log.Printf(...) }; return nil
LogLastUpdate(w, r) ==
    /\ pc' = [pc EXCEPT ![w] = "returned"]
    /\ err' = err

\* lastUpdate, err := uc.repo.GetLastUpdateTime(): the query runs on the
\* committed content, or fails
LastUpdateAfterSave(w) ==
    /\ pc[w] = "lastUpdate"
    /\ \E ok \in BOOLEAN :
          LET r == IF ok THEN GetLastUpdateTime(db) ELSE [time |-> ZeroTime, err |-> ErrQuery]
          IN  /\ lastUpdate' = r.time
              /\ lastUpdateErr' = r.err
              /\ LogLastUpdate(w, r)
    /\ UNCHANGED <<sourceVars, cacheVars, httpVars, stampVars, parseVars, timestampStr, lastPc, db, writer, data,
                   gradacData, rhmzRsData, failed, idx, tx, cronStarted, ticks, reply>>

NextWithLastUpdate ==
    \/ CronStart
    \/ \E w \in Workers :
          \/ Tick(w)
          \/ FetchPrimary(w)
          \/ FetchGradac(w)
          \/ FetchRhmzRs(w)
          \/ BeginPrepare(w)
          \/ Exec(w)
          \/ CommitThenLastUpdate(w)
          \/ LastUpdateAfterSave(w)
          \/ Return(w)

SpecWithLastUpdate == Init /\ [][NextWithLastUpdate]_vars

(***************************************************************************)
(* time.ParseInLocation("02.01.2006 15:04", value, loc), the layout of the *)
(* single-station page and of the regional bulletin.                       *)
(***************************************************************************)
IsLeap(year) == (year % 4 = 0 /\ year % 100 # 0) \/ year % 400 = 0

DaysIn(month, year) ==
    IF month = 2 THEN (IF IsLeap(year) THEN 29 ELSE 28)
    ELSE IF month \in {4, 6, 9, 11} THEN 30
    ELSE 31

\* the element "15" of a layout: two digits, or one when no second follows
ScanHour(s, i) == IF ScanDigits(s, i, 2).ok THEN ScanDigits(s, i, 2) ELSE ScanDigits(s, i, 1)

ParseInLocation(value, loc) ==
    LET d == ScanDigits(value, 1, 2)
        mo == ScanDigits(value, 4, 2)
        y == ScanDigits(value, 7, 4)
        h == ScanHour(value, 12)
        mi == ScanDigits(value, h.next + 1, 2)
        ok == /\ d.ok /\ ScanLiteral(value, 3, ".").ok
              /\ mo.ok /\ ScanLiteral(value, 6, ".").ok
              /\ y.ok /\ ScanLiteral(value, 11, " ").ok
              /\ h.ok /\ ScanLiteral(value, h.next, ":").ok
              /\ mi.ok /\ mi.next = Len(value) + 1
              /\ mo.val \in 1..12 /\ h.val < 24 /\ mi.val < 60
              /\ d.val \in 1..DaysIn(mo.val, y.val)
    IN  [ok |-> ok,
         time |-> IF ok THEN Date(y.val, mo.val, d.val, h.val, mi.val, 0, loc) ELSE ZeroTime]

\* t.Before(u) for two times of one location
Before(t, u) ==
    LET a == <<t.year, t.month, t.day, t.hour, t.minute, t.second>>
        b == <<u.year, u.month, u.day, u.hour, u.minute, u.second>>
    IN  \E k \in 1..6 : a[k] < b[k] /\ \A j \in 1..(k - 1) : a[j] = b[j]

(***************************************************************************)
(* FetchGradacRiverData: the single-station page.  A row is the sequence   *)
(* of its td cells, a cell its text.                                       *)
(***************************************************************************)
\* strconv.Atoi
Atoi(s) ==
    LET signed == s # <<>> /\ s[1] \in {"+", "-"}
        b == IF signed THEN 2 ELSE 1
        e == DigitsEnd(s, b)
        v == NumberValue(s, b, e)
    IN  [ok |-> e > b /\ e = Len(s) + 1,
         val |-> IF signed /\ s[1] = "-" THEN 0 - v ELSE v]

\* fmt.Sprintf("%d", n)
RECURSIVE Itoa(_)
Itoa(n) ==
    IF n < 0 THEN <<"-">> \o Itoa(0 - n)
    ELSE IF n < 10 THEN <<Numerals[n + 1]>>
    ELSE Itoa(n \div 10) \o <<Numerals[(n % 10) + 1]>>

\* "Datum i vreme", the header of the first column
GradacHeader == <<"D", "a", "t", "u", "m", " ", "i", " ", "v", "r", "e", "m", "e">>

\* the Records one row adds when a row whose datetime does not parse is kept
GradacRowKeepsUnparsed(cells) ==
    IF Len(cells) # 2 THEN <<>>
    ELSE LET dateTimeStr == Trim(cells[1])
             waterLevelStr == Trim(cells[2])
             parsed == ParseInLocation(dateTimeStr, "UTC")
             waterLevel == Atoi(waterLevelStr)
         IN  IF \/ dateTimeStr = <<>> \/ dateTimeStr = GradacHeader
                \/ ~Contains(dateTimeStr, <<".">>) \/ ~Contains(dateTimeStr, <<":">>)
             THEN <<>>
             ELSE IF ~waterLevel.ok THEN <<>>
             ELSE <<RiverData("GRADAC", "DEGURIC", Itoa(waterLevel.val), "", "", "", "",
                              parsed.time)>>

\* the callback of doc.Find("table tr").Each: the Records one row adds
GradacRow(cells) ==
    IF Len(cells) # 2 THEN <<>>
    ELSE LET dateTimeStr == Trim(cells[1])
             waterLevelStr == Trim(cells[2])
             parsed == ParseInLocation(dateTimeStr, "UTC")
             waterLevel == Atoi(waterLevelStr)
         IN  IF \/ dateTimeStr = <<>> \/ dateTimeStr = GradacHeader
                \/ ~Contains(dateTimeStr, <<".">>) \/ ~Contains(dateTimeStr, <<":">>)
             THEN <<>>
             ELSE IF ~parsed.ok THEN <<>>
             ELSE IF ~waterLevel.ok THEN <<>>
             ELSE <<RiverData("GRADAC", "DEGURIC", Itoa(waterLevel.val), "", "", "", "",
                              parsed.time)>>

\* the inner loop of the insertion sort: x moves left while it is before
\* its neighbour
RECURSIVE Insert(_, _)
Insert(sorted, x) ==
    IF sorted # <<>> /\ Before(x.Timestamp, sorted[Len(sorted)].Timestamp)
    THEN Append(Insert(SubSeq(sorted, 1, Len(sorted) - 1), x), sorted[Len(sorted)])
    ELSE Append(sorted, x)

\* sort.Slice left out
SortSliceOmitted(s) == s

\* sort.Slice(data, func(i, j) { return data[i].Timestamp.Before(data[j].Timestamp) }):
\* an insertion sort on slices of fewer than twelve elements
RECURSIVE SortSlice(_)
SortSlice(s) ==
    IF s = <<>> THEN <<>>
    ELSE Insert(SortSlice(SubSeq(s, 1, Len(s) - 1)), s[Len(s)])

MaxGradacRows == 3    \* table rows of an explored single-station page

\* "DD.MM.YYYY HH:MM"
GradacDateTime(d, m, y, h, mi) == d \o <<".">> \o m \o <<".">> \o y \o <<" ">> \o h \o <<":">> \o mi

April2025(d, h) ==
    GradacDateTime(d, <<"0", "4">>, <<"2", "0", "2", "5">>, h, <<"0", "0">>)

\* rows of the page: the header, readings, a reading inside white space and
\* with a signed level, 31 February, a time with seconds, a level that is no
\* number, the date 1 January of the year 1, a row of three cells
GradacTableRows ==
    { <<GradacHeader, <<"V", "o", "d", "o", "s", "t", "a", "j">>>>,
      <<April2025(<<"1", "8">>, <<"0", "7">>), <<"5", "5">>>>,
      <<April2025(<<"1", "8">>, <<"0", "6">>), <<"5", "7">>>>,
      <<<<" ">> \o April2025(<<"1", "7">>, <<"2", "3">>) \o <<"\n">>, <<" ", "+", "5", "4">>>>,
      <<GradacDateTime(<<"3", "1">>, <<"0", "2">>, <<"2", "0", "2", "5">>, <<"0", "7">>,
                       <<"0", "0">>), <<"5", "5">>>>,
      <<April2025(<<"1", "8">>, <<"0", "8">>) \o <<":", "0", "0">>, <<"5", "6">>>>,
      <<April2025(<<"1", "8">>, <<"0", "9">>), <<"-">>>>,
      <<GradacDateTime(<<"0", "1">>, <<"0", "1">>, <<"0", "0", "0", "1">>, <<"0", "0">>,
                       <<"0", "0">>), <<"0">>>>,
      <<April2025(<<"1", "8">>, <<"0", "7">>), <<"5", "5">>, <<"x">>>> }

GradacDocs ==
    {[stamp |-> Time(0, 0), rows |-> rows] : rows \in SeqsUpTo(GradacTableRows, MaxGradacRows)}

ErrGet == "failed to fetch"

ErrStatus == "unexpected status code"

ErrDocument == "failed to parse the webpage"

\* res, err := http.Get(ws.gradacRiverURL), the status check and
\* goquery.NewDocumentFromReader(res.Body)
FetchGradacRiverDataGet ==
    /\ parsePc = "get"
    /\ \E r \in Responses \cup {NoResponse}, readable \in BOOLEAN :
          /\ resp' = r
          /\ IF r = NoResponse
             THEN parsePc' = "done" /\ fetchErr' = ErrGet
             ELSE IF r.StatusCode # StatusOK
             THEN parsePc' = "done" /\ fetchErr' = ErrStatus
             ELSE IF ~readable
             THEN parsePc' = "done" /\ fetchErr' = ErrDocument
             ELSE parsePc' = "gradac rows" /\ fetchErr' = ""
    /\ UNCHANGED <<sourceVars, cacheVars, lastVars, stampVars, refreshVars, doc, visited, records, rowCount,
                   currentRiver, headerPassed, resp2>>

\* one call of the Each callback
FetchGradacRiverDataRow ==
    /\ parsePc = "gradac rows"
    /\ visited < Len(doc.rows)
    /\ visited' = visited + 1
    /\ records' = records \o GradacRow(doc.rows[visited + 1])
    /\ UNCHANGED <<sourceVars, cacheVars, httpVars, lastVars, stampVars, refreshVars, doc, parsePc, rowCount,
                   currentRiver, headerPassed, fetchErr>>

\* sort.Slice and return data, nil
FetchGradacRiverDataReturn ==
    /\ parsePc = "gradac rows"
    /\ visited = Len(doc.rows)
    /\ records' = SortSlice(records)
    /\ parsePc' = "gradac done"
    /\ UNCHANGED <<sourceVars, cacheVars, httpVars, lastVars, stampVars, refreshVars, doc, visited, rowCount,
                   currentRiver, headerPassed, fetchErr>>

InitGradac ==
    /\ InitRefresh
    /\ InitStamp
    /\ InitLast
    /\ InitHttp
    /\ InitCache
    /\ InitSources
    /\ doc \in GradacDocs
    /\ parsePc = "get"
    /\ visited = 0
    /\ records = <<>>
    /\ rowCount = 0
    /\ currentRiver = ""
    /\ headerPassed = FALSE
    /\ fetchErr = ""

NextGradac ==
    FetchGradacRiverDataGet \/ FetchGradacRiverDataRow \/ FetchGradacRiverDataReturn

SpecGradac == InitGradac /\ [][NextGradac]_vars

(***************************************************************************)
(* FetchRhmzRsData, step 5: the bulletin's common timestamp.               *)
(***************************************************************************)
RECURSIVE SkipWhite(_, _)
SkipWhite(s, i) == IF i <= Len(s) /\ IsSpace(s[i]) THEN SkipWhite(s, i + 1) ELSE i

\* "NA DAN" and "GODINE", the words the row is recognised by
OnDayLabel == <<"N", "A", " ", "D", "A", "N">>

YearLabel == <<"G", "O", "D", "I", "N", "E">>

NoMatch == [ok |-> FALSE, dateStr |-> <<>>, timeStr |-> <<>>]

\* the expression NA\s+DAN\s+(\d{2}\.\d{2}\.\d{4})\.\s*GODINE,\s*U\s*(\d{1,2}:\d{2})
\* matched at position i
MatchAt(s, i) ==
    LET a == SkipWhite(s, i + 2)
        b == SkipWhite(s, a + 3)
        c == SkipWhite(s, b + 11)
        d == SkipWhite(s, c + 7)
        e == SkipWhite(s, d + 1)
        h == IF ScanDigits(s, e, 2).ok /\ ScanLiteral(s, e + 2, ":").ok
             THEN ScanDigits(s, e, 2) ELSE ScanDigits(s, e, 1)
        mi == ScanDigits(s, h.next + 1, 2)
        ok == /\ HasAt(s, <<"N", "A">>, i) /\ a > i + 2
              /\ HasAt(s, <<"D", "A", "N">>, a) /\ b > a + 3
              /\ ScanDigits(s, b, 2).ok /\ ScanLiteral(s, b + 2, ".").ok
              /\ ScanDigits(s, b + 3, 2).ok /\ ScanLiteral(s, b + 5, ".").ok
              /\ ScanDigits(s, b + 6, 4).ok /\ ScanLiteral(s, b + 10, ".").ok
              /\ HasAt(s, YearLabel \o <<",">>, c)
              /\ ScanLiteral(s, d, "U").ok
              /\ h.ok /\ ScanLiteral(s, h.next, ":").ok /\ mi.ok
    IN  IF ok
        THEN [ok |-> TRUE, dateStr |-> SubSeq(s, b, b + 9), timeStr |-> SubSeq(s, e, mi.next - 1)]
        ELSE NoMatch

\* tsRe.FindStringSubmatch(text): the leftmost match
FindStringSubmatch(text) ==
    IF \E i \in 1..Len(text) : MatchAt(text, i).ok
    THEN MatchAt(text, CHOOSE i \in 1..Len(text) :
                          MatchAt(text, i).ok /\ \A j \in 1..(i - 1) : ~MatchAt(text, j).ok)
    ELSE NoMatch

\* the callback of the first doc.Find("table tr").Each on the text of a
\* row's first cell
RhmzTimestampRow(cellText, stamp) ==
    LET text == Trim(cellText)
        tsMatch == FindStringSubmatch(text)
        parsed == ParseInLocation(tsMatch.dateStr \o <<" ">> \o tsMatch.timeStr, "Europe/Sarajevo")
    IN  IF Contains(text, OnDayLabel) /\ Contains(text, YearLabel) /\ tsMatch.ok /\ parsed.ok
        THEN parsed.time
        ELSE stamp

\* the loop over the rows, from the default time.Now()
RECURSIVE RhmzTimestamp(_, _)
RhmzTimestamp(cellTexts, default) ==
    IF cellTexts = <<>> THEN default
    ELSE RhmzTimestampRow(cellTexts[Len(cellTexts)],
                          RhmzTimestamp(SubSeq(cellTexts, 1, Len(cellTexts) - 1), default))

\* first cells of the bulletin's rows: the title, the date and time, the
\* same inside a sentence, a one-digit month, 31 February, hour 25
RhmzStampTexts ==
    { <<"H", "I", "D", "R", "O", "L", "O", "S", "K", "I", " ", "B", "I", "L", "T", "E",
      "N">>,
      <<"N", "A", " ", "D", "A", "N", " ", "1", "8", ".", "0", "4", ".", "2", "0", "2", "5",
      ".", " ", "G", "O", "D", "I", "N", "E", ",", " ", "U", " ", "8", ":", "0", "0">>,
      <<"S", "T", "A", "N", "J", "E", " ", "N", "A", " ", "D", "A", "N", " ", "1", "8", ".",
      "0", "4", ".", "2", "0", "2", "5", ".", " ", "G", "O", "D", "I", "N", "E", ",", " ",
      "U", " ", "0", "8", ":", "0", "0", " ", "C", "A", "S", "O", "V", "A">>,
      <<"N", "A", " ", "D", "A", "N", " ", "1", "8", ".", "4", ".", "2", "0", "2", "5", ".",
      " ", "G", "O", "D", "I", "N", "E", ",", " ", "U", " ", "8", ":", "0", "0">>,
      <<"N", "A", " ", "D", "A", "N", " ", "3", "1", ".", "0", "2", ".", "2", "0", "2", "5",
      ".", " ", "G", "O", "D", "I", "N", "E", ",", " ", "U", " ", "8", ":", "0", "0">>,
      <<"N", "A", " ", "D", "A", "N", " ", "1", "8", ".", "0", "4", ".", "2", "0", "2", "5",
      ".", " ", "G", "O", "D", "I", "N", "E", ",", " ", "U", " ", "2", "5", ":", "0", "0">> }

RhmzStampPages == SeqsUpTo(RhmzStampTexts, 2)

\* timestamp := time.Now() and the first doc.Find("table tr").Each
FetchRhmzRsDataTimestamp ==
    /\ stampPc = "rhmz"
    /\ timestamp' = RhmzTimestamp(page, now)
    /\ stampPc' = "rhmz done"
    /\ UNCHANGED <<sourceVars, cacheVars, httpVars, lastVars, refreshVars, parseVars, page, timestampText, now>>

(***************************************************************************)
(* The timestamps of the three adapters                                    *)
(***************************************************************************)
InitRhmzRsTimestamp ==
    /\ InitRefresh
    /\ InitParse
    /\ InitLast
    /\ InitHttp
    /\ InitCache
    /\ InitSources
    /\ page \in RhmzStampPages
    /\ stampPc = "rhmz"
    /\ timestampText = <<>>
    /\ now \in Clock
    /\ timestamp = ZeroTime

InitTimestamps == InitExtractTimestamp \/ InitGradac \/ InitRhmzRsTimestamp

NextTimestamps == NextExtractTimestamp \/ NextGradac \/ FetchRhmzRsDataTimestamp

SpecTimestamps == InitTimestamps /\ [][NextTimestamps]_vars

(***************************************************************************)
(* Properties of the repository and of the refresh                         *)
(***************************************************************************)
BatchRivers == {"DUNAV", "VRBAS"}

BatchStations == {"S1", "S2"}

BatchLevels == {"100", "120"}

BatchTimes == {Belgrade8, Utc7}

MaxBatch == 2

\* every batch of at most MaxBatch Records over the values above
AllBatches ==
    SeqsUpTo({RiverData(r, s, l, "", "", "15.5", "", t) :
                r \in BatchRivers, s \in BatchStations, l \in BatchLevels, t \in BatchTimes},
             MaxBatch)

\* no refresh is running: db is the content some sequence of calls left
Quiescent == \A w \in Workers : pc[w] = "idle"

Stored(st, rd) == \E row \in st.rows : SameKey(row, rd)

\* C1: saving a batch a second time leaves GetRiverDataByName, for every
\* river, returning what it returned after the first save, and adds no row:
\* for every batch and every store content a sequence of calls can leave.
C1_IdempotentUpsert ==
    Quiescent =>
        \A b \in AllBatches :
            LET once == SaveAll(db, b)
                twice == SaveAll(once, b)
            IN  /\ \A r \in Rivers \cup BatchRivers :
                      GetRiverDataByName(twice, r) = GetRiverDataByName(once, r)
                /\ Cardinality(twice.rows) = Cardinality(once.rows)

\* two refreshes have saved the same non-empty batch
C1_Witness ==
    \E v, w \in Workers :
        /\ v # w
        /\ pc[v] = "returned" /\ pc[w] = "returned"
        /\ err[v] = "" /\ err[w] = ""
        /\ data[v] = data[w]
        /\ data[v] # NoData
        /\ \A k \in 1..Len(data[v]) : Stored(db, data[v][k])

\* C2: GetRiverDataByName(R) returns only rows of river R, exactly one row
\* for each station that has a stored row of R, and that row's timestamp is
\* the latest instant among the stored rows of that river and station.
C2_LatestWins ==
    \A r \in Rivers :
        LET res == GetRiverDataByName(db, r)
            mine == {row \in db.rows : row.river = r}
        IN  /\ \A k \in 1..Len(res) : res[k].River = r
            /\ \A row \in mine :
                  Cardinality({k \in 1..Len(res) : res[k].Station = row.station}) = 1
            /\ \A k \in 1..Len(res) : \A row \in mine :
                  row.station = res[k].Station
                      => Instant(ParseTime(row.timestamp)) <= Instant(res[k].Timestamp)

\* C3: the only errors a refresh returns are the primary adapter's and the
\* repository's; a refresh that returned none saved the primary's Records
\* followed by those of each secondary adapter that did not fail, and every
\* one of them is stored.
C3_PartialSourceTolerance ==
    \A w \in Workers :
        /\ err[w] \in {"", ErrFetchGeneral, ErrSave}
        /\ err[w] = ErrFetchGeneral => "general" \in failed[w]
        /\ (pc[w] = "returned" /\ err[w] = "") =>
              /\ \E p \in PrimaryResults : data[w] = p \o gradacData[w] \o rhmzRsData[w]
              /\ \A k \in 1..Len(data[w]) : Stored(db, data[w][k])
              /\ "gradac" \notin failed[w] => gradacData[w] \in GradacResults
              /\ "rhmzrs" \notin failed[w] => rhmzRsData[w] \in RhmzRsResults

\* a refresh returned no error although one secondary adapter failed
C3_Witness ==
    \E w \in Workers :
        /\ pc[w] = "returned" /\ err[w] = ""
        /\ "gradac" \in failed[w] /\ "rhmzrs" \notin failed[w]
        /\ data[w] # NoData
        /\ \A k \in 1..Len(data[w]) : Stored(db, data[w][k])

\* C4: a refresh whose primary fetch failed returns the fetch error, has
\* fetched nothing else, has not called SaveRiverData, and none of its
\* steps changes the store.
C4_PrimaryMandatory ==
    /\ [](\A w \in Workers :
            "general" \in failed[w] =>
                /\ pc[w] = "returned"
                /\ err[w] = ErrFetchGeneral
                /\ data[w] = NoData /\ gradacData[w] = NoData /\ rhmzRsData[w] = NoData
                /\ failed[w] = {"general"}
                /\ idx[w] = 0 /\ tx[w] = NoTx /\ writer # w)
    /\ [][\A w \in Workers :
            ("general" \in failed'[w] /\ pc'[w] # pc[w]) => db' = db]_vars

\* the primary fetch of a refresh failed while the store had rows
C4_Witness ==
    \E w \in Workers :
        /\ "general" \in failed[w]
        /\ pc[w] = "returned"
        /\ db.rows # {}

\* C5: a SaveRiverData call that returns an error leaves no open
\* transaction behind, and the step on which it fails leaves the committed
\* store as it was: nothing the batch had executed remains.
C5_SaveAllOrNothing ==
    /\ [](\A w \in Workers : err[w] = ErrSave => (tx[w] = NoTx /\ writer # w))
    /\ [][\A w \in Workers : (err[w] = "" /\ err'[w] = ErrSave) => db' = db]_vars

\* a save failed after records of its batch had been executed, and none of
\* the batch is stored
C5_Witness ==
    \E w \in Workers :
        /\ pc[w] = "returned" /\ err[w] = ErrSave
        /\ idx[w] >= 2
        /\ \A k \in 1..Len(data[w]) : ~Stored(db, data[w][k])

\* C6: the content a query reads changes only by the commit of a whole
\* batch, from the content before the batch to the content with every
\* record of the batch applied, and a query returns what that content holds.
C6_ReadsSeeWholeBatches ==
    [][/\ db' # db =>
            \E w \in Workers :
                /\ pc[w] = "commit" /\ pc'[w] = "returned" /\ err'[w] = ""
                /\ db' = SaveAll(db, data[w])
       /\ (reply' # reply /\ reply' # NoReply) =>
            reply'.rows = GetRiverDataByName(db, reply'.arg)]_vars

\* a query was answered from the content before the batch while a
\* transaction had applied a part of its batch
C6_Witness ==
    \E w \in Workers :
        /\ pc[w] = "exec" /\ writer = w
        /\ idx[w] \in 2..Len(data[w])
        /\ reply # NoReply
        /\ reply.rows = GetRiverDataByName(db, reply.arg)
        /\ reply.rows # GetRiverDataByName(tx[w], reply.arg)

\* C7: at most one execution of RefreshRiverData is in progress.
InProgress(w) == pc[w] \notin {"idle", "returned"}

C7_RefreshSerialized == Cardinality({w \in Workers : InProgress(w)}) <= 1

\* C8: neither the committed table nor any transaction's view of it holds
\* two rows with the same river, station and timestamp.
UniqueKeys(st) ==
    \A a, b \in st.rows :
        (a.river = b.river /\ a.station = b.station /\ a.timestamp = b.timestamp)
            => a = b

C8_UniqueKey == UniqueKeys(db) /\ \A w \in Workers : UniqueKeys(tx[w])

\* a committed batch named one key twice and the key is stored once
C8_Witness ==
    \E w \in Workers :
        /\ pc[w] = "returned" /\ err[w] = ""
        /\ \E j, k \in 1..Len(data[w]) :
              /\ j < k
              /\ data[w][j].River = data[w][k].River
              /\ data[w][j].Station = data[w][k].Station
              /\ data[w][j].Timestamp = data[w][k].Timestamp
              /\ Cardinality({row \in db.rows : SameKey(row, data[w][k])}) = 1

\* C9: in a bulletin FetchRhmzRsData has parsed, every row after the header
\* that has a blank river cell and a station, and follows a row naming
\* river X with only such rows between, has a Record with river X.
IsDataRow(cells) ==
    /\ Len(cells) >= 4
    /\ TrimSpace(Text(cells, 0)) # ""
    /\ ~IsFootnote(TrimSpace(Text(cells, 0)))
    /\ TrimSpace(Text(cells, 0)) # HeaderLabel

IsContinuationRow(cells) ==
    /\ Len(cells) >= 4
    /\ TrimSpace(Text(cells, 0)) = ""
    /\ TrimSpace(Text(cells, 1)) # ""

C9_RowSpanCarryForward ==
    (parsePc = "done" /\ fetchErr = "") =>
        \A h, i, j \in 1..Len(doc.rows) :
            ( /\ h < i /\ i < j
              /\ \A g \in 1..h : (doc.rows[g] = RhmzHeaderRow) <=> (g = h)
              /\ IsDataRow(doc.rows[i])
              /\ \A m \in (i + 1)..j : IsContinuationRow(doc.rows[m]) )
            => \E k \in 1..Len(records) :
                  /\ records[k].River = TrimSpace(Text(doc.rows[i], 0))
                  /\ records[k].Station = TrimSpace(Text(doc.rows[j], 1))

\* C10: FetchWaterData on a document it could fetch returns no error and
\* exactly one Record for each row of at least ten cells, in document
\* order; rows of fewer cells add nothing.
TenCells(cells) == Len(cells) >= 10

C10_MalformedRowSkip ==
    /\ fetchErr # "" => (visited = 0 /\ records = <<>>)
    /\ (parsePc = "done" /\ fetchErr = "") =>
        LET full == SelectSeq(doc.rows, TenCells)
        IN  /\ Len(records) = Len(full)
            /\ rowCount = Len(doc.rows)
            /\ \A k \in 1..Len(full) :
                  /\ records[k].River = "DUNAV"
                  /\ records[k].Station = full[k][3].a
                  /\ records[k].WaterLevel = TrimSpace(full[k][6].text)
                  /\ records[k].Timestamp = doc.stamp

\* a page with a short row between two full rows has been parsed
C10_Witness ==
    /\ parsePc = "done" /\ fetchErr = ""
    /\ Len(doc.rows) = 3
    /\ Len(doc.rows[1]) >= 10 /\ Len(doc.rows[2]) < 10 /\ Len(doc.rows[3]) >= 10
    /\ doc.rows[1][3].a # doc.rows[3][3].a
    /\ Len(records) = 2

\* C11: when the text ExtractTimestamp matched is a bulletin time line, with
\* or without the day name and with or without the UTC annotation, the
\* timestamp it returns is the written year, month, day, hour and minute,
\* second 0, in Europe/Belgrade.
C11_TimestampExtraction ==
    stampPc = "done" =>
        \A dayName \in DayNames, d \in Days, m \in Months, y \in Years, h \in Hours,
           mi \in Minutes, note \in UtcNotes :
            timestampText = BulletinText(dayName, d[1], m[1], y[1], h[1], mi[1], note)
                => timestamp = Date(y[2], m[2], d[2], h[2], mi[2], 0, "Europe/Belgrade")

\* the time line of the test page, PETAK 18.04.2025. 8:00 (06:00 UTC), was read
C11_Witness ==
    /\ stampPc = "done"
    /\ timestampText =
         BulletinText(<<"P", "E", "T", "A", "K", " ">>, <<"1", "8">>, <<"0", "4">>,
                      <<"2", "0", "2", "5">>, <<"8">>, <<"0", "0">>,
                      <<" ", "(", "0", "6", ":", "0", "0", " ", "U", "T", "C", ")">>)
    /\ timestamp = Date(2025, 4, 18, 8, 0, 0, "Europe/Belgrade")

\* C12: GetUniqueRivers returns exactly the rivers that have a row which is
\* the latest of its (river, station), each once, in ascending order of the
\* names: in every committed store and after any further batch.
IsLatest(rows, row) ==
    \A other \in rows :
        (other.river = row.river /\ other.station = row.station)
            => Instant(ParseTime(other.timestamp)) <= Instant(ParseTime(row.timestamp))

UniqueRiversOf(st) ==
    LET res == GetUniqueRivers(st)
    IN  /\ \A r \in Rivers \cup BatchRivers :
              (\E row \in st.rows : row.river = r /\ IsLatest(st.rows, row))
                  <=> (\E k \in 1..Len(res) : res[k] = r)
        /\ \A k \in 1..Len(res) : res[k] \in Rivers \cup BatchRivers
        /\ \A j, k \in 1..Len(res) : j < k => Rank(res[j]) < Rank(res[k])

C13_FieldRoundTrip ==
    \A w \in Workers :
        (pc[w] = "returned" /\ err[w] = "") =>
            \A k \in 1..Len(data[w]) :
                LET rd == data[w][k]
                    res == GetRiverDataByName(db, rd.River)
                IN  \A j \in 1..Len(res) :
                        (res[j].Station = rd.Station /\ res[j].Timestamp = rd.Timestamp)
                            => /\ res[j].River = rd.River
                               /\ res[j].WaterChange = rd.WaterChange
                               /\ res[j].Discharge = rd.Discharge
                               /\ res[j].Tendency = rd.Tendency

\* C14: on a store that has rows GetLastUpdateTime returns no error and the
\* latest instant among the timestamps of all rows.
InstantOf(t) == t.hour - t.loc.offset

C14_LastUpdateIsMaxInstant ==
    db.rows # {} =>
        LET got == GetLastUpdateTime(db)
        IN  /\ got.err = ""
            /\ \A row \in db.rows :
                  Instant(ParseTime(row.timestamp)) <= InstantOf(got.time)

\* C15: for a stored text that is not empty, GetLastUpdateTime returns what
\* the first layout of the list that reads the text gives, with no error;
\* when no layout reads it, it returns an error.  The text the driver stores
\* for 08:00+02:00 is read as hour 8, offset +2.
Reads(k, s) == ParseLayout(s, Layouts[k]).ok

C15_LastUpdateParse ==
    (lastPc = "done" /\ timestampStr.Valid /\ timestampStr.String # <<>>) =>
        LET s == timestampStr.String
            reading == {k \in 1..Len(Layouts) : Reads(k, s)}
        IN  /\ reading = {} => lastUpdateErr # ""
            /\ reading # {} =>
                  /\ lastUpdateErr = ""
                  /\ \E k \in reading :
                        /\ \A j \in reading : k <= j
                        /\ lastUpdate = ParseLayout(s, Layouts[k]).time
            /\ s \in UnreadableTexts => lastUpdateErr = ErrParseTimestamp
            /\ s = StoredText(Belgrade8) =>
                  /\ lastUpdateErr = ""
                  /\ lastUpdate = Date(2025, 4, 18, 8, 0, 0, FixedZone(2))

\* a stored text that no layout reads was met and the error returned
C15_Witness ==
    /\ lastPc = "done"
    /\ timestampStr.Valid
    /\ timestampStr.String \in UnreadableTexts
    /\ \A k \in 1..Len(Layouts) : ~Reads(k, timestampStr.String)
    /\ lastUpdateErr = ErrParseTimestamp


\* what the Each callback has appended once every row of the page is visited
RECURSIVE Collected(_)
Collected(rows) ==
    IF rows = <<>> THEN <<>>
    ELSE Collected(SubSeq(rows, 1, Len(rows) - 1)) \o GradacRow(rows[Len(rows)])

\* C20: the Records FetchGradacRiverData returns are ordered oldest-first:
\* for all positions i < j the timestamp at i is not after the timestamp at
\* j, whatever the order of the rows in the page.
C20_GradacOldestFirst ==
    (parsePc = "gradac done") =>
        \A i, j \in 1..Len(records) :
            i < j => ~Before(records[j].Timestamp, records[i].Timestamp)

\* a page whose readings were not in ascending order has been returned
C20_Witness ==
    /\ parsePc = "gradac done"
    /\ Len(records) = 3
    /\ records # Collected(doc.rows)
    /\ Before(records[1].Timestamp, records[3].Timestamp)

C17_PersistenceErrorsReturned ==
    [][\A w \in Workers :
          /\ (pc[w] \in {"save", "exec", "commit"} /\ pc'[w] = "returned") => err'[w] # ""
          /\ (pc[w] = "lastUpdate" /\ pc'[w] = "returned" /\ lastUpdateErr' # "")
                => err'[w] # ""]_vars

\* a response was received and its status is not a success (2xx)
NonSuccess(r) == r # NoResponse /\ r.StatusCode \notin 200..299

\* C18: an adapter that was answered with a non-success HTTP status, on its
\* request or on either of the regional adapter's two requests, returns an
\* error and no Records.
C18_NonSuccessStatusFails ==
    (parsePc \in {"done", "gradac done"} /\ (NonSuccess(resp) \/ NonSuccess(resp2)))
        => (fetchErr # "" /\ records = <<>>)

\* C19: a source that never responds cannot block a refresh forever: every
\* RefreshRiverData that has started eventually returns.
C19_RefreshReturns ==
    \A w \in Workers : (pc[w] = "fetchPrimary") ~> (pc[w] = "returned")

\* the values the entity's tendency may take
Tendencies == {"rising", "falling", "stable", ""}

\* C21: every Record an adapter has produced has a tendency that is one of
\* "rising", "falling", "stable" or the empty string.
C21_TendencyNormalized ==
    \A k \in 1..Len(records) : records[k].Tendency \in Tendencies

\* the caller of a RefreshRiverData that returned an error takes its step:
\* the goroutine is free again and nothing else in the process changes
LogAndContinue(w) ==
    (pc[w] = "returned" /\ err[w] # "" /\ pc'[w] # "returned") =>
        /\ pc'[w] = "idle"
        /\ \A v \in Workers \ {w} : pc'[v] = pc[v]
        /\ cronStarted' = cronStarted /\ ticks' = ticks /\ db' = db

\* the scheduler can start: c.Start() once the initial refresh has
\* returned, the next hourly tick once it has started
SchedulerGoesOn ==
    /\ (~cronStarted /\ pc[1] = "idle") => ENABLED CronStart
    /\ (cronStarted /\ ticks < MaxTicks /\ \E w \in Workers : pc[w] = "idle")
          => ENABLED (\E w \in Workers : Tick(w))

\* C22: when RefreshRiverData returns an error, at startup or on an hourly
\* tick, the scraper process logs it and goes on: it does not exit, and the
\* later hourly ticks still start RefreshRiverData.
C22_SchedulerContinues ==
    /\ [](\A w \in Workers : pc[w] # "exited")
    /\ []SchedulerGoesOn
    /\ [][\A w \in Workers : LogAndContinue(w)]_vars

\* every refresh so far has failed, the initial one included, and an hourly
\* tick has started another
C22_Witness ==
    /\ cronStarted
    /\ ticks = MaxTicks
    /\ db = EmptyStore
    /\ \E w \in Workers : pc[w] = "fetchPrimary"
    /\ \E w \in Workers : pc[w] = "returned" /\ err[w] # ""

\* a text that holds the data label and on which a step of the parse fails
ParseStepFails(text) == text \in OtherTexts \cup {PanicText} /\ Contains(text, DataLabel)

\* C23: on every text on which a parsing step fails (no time label, the
\* labels in reverse order, no date token with a dot, a date not of the form
\* DD.MM.YYYY., a time not of the form H:MM) parseTimestampText returns the
\* zero time and does not abort its caller.
C23_ParseFailureIsZero ==
    /\ stampPc # "panic"
    /\ (stampPc = "done" /\ ParseStepFails(timestampText))
          => (parseTimestampText(timestampText) = ZeroTime /\ timestamp = now)

\* the first element of a selection, in document order, whose text holds the
\* label; <<>> when there is none
RECURSIVE FirstLabelled(_)
FirstLabelled(elements) ==
    IF elements = <<>> THEN <<>>
    ELSE IF Contains(Trim(elements[1]), DataLabel) THEN Trim(elements[1])
    ELSE FirstLabelled(Tail(elements))

\* the first labelled element of the first selector that has one
RECURSIVE FirstAcrossSelectors(_)
FirstAcrossSelectors(selections) ==
    IF selections = <<>> THEN <<>>
    ELSE IF FirstLabelled(selections[1]) # <<>> THEN FirstLabelled(selections[1])
    ELSE FirstAcrossSelectors(Tail(selections))

\* C24: ExtractTimestamp tries the selectors in their listed order, stops at
\* the first selector that has a match, and within that selector uses the
\* first matching element in document order, not a later one.
C24_FirstMatchUsed ==
    (stampPc \in {"parse", "done", "panic"}) => timestampText = FirstAcrossSelectors(page)


\* C25: in the records FetchRhmzRsData builds, no optional field (water
\* change, water temperature, discharge) is left as the placeholder "-": a
\* "-" cell becomes the empty string; an empty or "-" level becomes "0".
C25_PlaceholdersNormalized ==
    \A k \in 1..Len(records) :
        /\ records[k].WaterChange # "-"
        /\ records[k].WaterTemp # "-"
        /\ records[k].Discharge # "-"
        /\ records[k].WaterLevel \notin {"-", ""}


(***************************************************************************)
(* RefreshRiverData with the regional adapter's steps in place of its      *)
(* result: the call at the third fetch runs FetchRhmzRsData on a bulletin. *)
(***************************************************************************)
\* bulletins of at most a header row and one more row
RhmzShortDocs == {d \in RhmzDocs : Len(d.rows) <= 2}

\* rhmzRsData, err := uc.scraper.FetchRhmzRsData(): the call
CallFetchRhmzRsData(w) ==
    /\ pc[w] = "fetchRhmzRs"
    /\ parsePc = "idle"
    /\ doc' \in RhmzShortDocs
    /\ parsePc' = "get"
    /\ UNCHANGED <<sourceVars, cacheVars, visited, records, rowCount, currentRiver, headerPassed, fetchErr,
                   refreshVars, httpVars, lastVars, stampVars>>

\* the call's return: an error is logged and the refresh goes on to save,
\* otherwise the records are appended to data
FetchRhmzRsDataReturned(w) ==
    /\ pc[w] = "fetchRhmzRs"
    /\ parsePc = "done"
    /\ IF fetchErr # ""
       THEN /\ failed' = [failed EXCEPT ![w] = @ \cup {"rhmzrs"}]
            /\ UNCHANGED <<rhmzRsData, data>>
       ELSE /\ failed' = failed
            /\ rhmzRsData' = [rhmzRsData EXCEPT ![w] = records]
            /\ data' = [data EXCEPT ![w] = @ \o records]
    /\ pc' = [pc EXCEPT ![w] = "save"]
    /\ UNCHANGED <<sourceVars, cacheVars, httpVars, lastVars, stampVars, parseVars, db, writer, gradacData, idx, tx,
                   err, cronStarted, ticks, reply>>

NextRefreshRhmzRs ==
    \/ FetchRhmzRsDataGet
    \/ FetchRhmzRsDataRow
    \/ FetchRhmzRsDataReturn
    \/ \E w \in Workers :
          \/ FetchPrimary(w)
          \/ FetchGradac(w)
          \/ CallFetchRhmzRsData(w)
          \/ FetchRhmzRsDataReturned(w)
          \/ BeginPrepare(w)
          \/ Exec(w)
          \/ Commit(w)
          \/ Return(w)

SpecRefreshRhmzRs == Init /\ [][NextRefreshRhmzRs]_vars

\* C26: when the listing page holds no bulletin link, FetchRhmzRsData ends
\* with an error, has built no Records and has requested no bulletin, and
\* the RefreshRiverData that called it does not fail for it: it goes on to
\* save what the other sources gave, and an error it returns is the save's.
C26_NoLinkNoBulletin ==
    /\ (parsePc = "done" /\ fetchErr = "link not found")
          => (records = <<>> /\ resp2 = NoResponse)
    /\ \A w \in Workers :
          (fetchErr = "link not found" /\ pc[w] \notin {"fetchRhmzRs", "idle"})
             => /\ "rhmzrs" \in failed[w]
                /\ rhmzRsData[w] = NoData
                /\ err[w] \in {"", ErrSave}
                /\ pc[w] \in {"save", "exec", "commit", "returned"}

C26_Witness ==
    /\ fetchErr = "link not found"
    /\ resp # NoResponse
    /\ resp2 = NoResponse
    /\ pc[1] = "returned"
    /\ err[1] = ""
    /\ db # EmptyStore


(***************************************************************************)
(* GetCachedData: the read-through cache of the single-file bot.  The data *)
(* a fetch returns is named by the number of the fetch; time is counted in *)
(* half hours.                                                             *)
(***************************************************************************)
Hour == 2           \* time.Hour, in half hours
MaxWall == 4        \* the last wall-clock reading explored
MaxFetches == 3     \* calls of FetchWaterData explored

\* time.Since(cache.lastUpdate)
Since(t) == wall - t

\* !cache.lastUpdate.IsZero() && time.Since(cache.lastUpdate) < time.Hour
Fresh == cacheLastUpdate # ZeroLastUpdate /\ Since(cacheLastUpdate) < Hour

\* cache.mutex.RLock(): waits while a writer holds the mutex
RLock(c) ==
    /\ callPc[c] = "idle"
    /\ mutexWriter = NoCaller
    /\ mutexReaders' = mutexReaders \cup {c}
    /\ callPc' = [callPc EXCEPT ![c] = "check"]
    /\ callData' = [callData EXCEPT ![c] = NilData]
    /\ callLastUpdate' = [callLastUpdate EXCEPT ![c] = ZeroLastUpdate]
    /\ callErr' = [callErr EXCEPT ![c] = ""]
    /\ UNCHANGED <<sourceVars, cacheData, cacheLastUpdate, mutexWriter, fetchCount, wall, written,
                   refreshVars, parseVars, stampVars, lastVars, httpVars>>

\* the freshness test under the read lock
CheckFresh(c) ==
    /\ callPc[c] = "check"
    /\ callPc' = [callPc EXCEPT ![c] = IF Fresh THEN "readData" ELSE "runlock"]
    /\ UNCHANGED <<sourceVars, cacheData, cacheLastUpdate, mutexReaders, mutexWriter, callData,
                   callLastUpdate, callErr, fetchCount, wall, written,
                   refreshVars, parseVars, stampVars, lastVars, httpVars>>

\* data := cache.data
ReadData(c) ==
    /\ callPc[c] = "readData"
    /\ callData' = [callData EXCEPT ![c] = cacheData]
    /\ callPc' = [callPc EXCEPT ![c] = "readLastUpdate"]
    /\ UNCHANGED <<sourceVars, cacheData, cacheLastUpdate, mutexReaders, mutexWriter,
                   callLastUpdate, callErr, fetchCount, wall, written,
                   refreshVars, parseVars, stampVars, lastVars, httpVars>>

\* lastUpdate := cache.lastUpdate; cache.mutex.RUnlock(); return
ReadLastUpdate(c) ==
    /\ callPc[c] = "readLastUpdate"
    /\ callLastUpdate' = [callLastUpdate EXCEPT ![c] = cacheLastUpdate]
    /\ mutexReaders' = mutexReaders \ {c}
    /\ callPc' = [callPc EXCEPT ![c] = "served"]
    /\ UNCHANGED <<sourceVars, cacheData, cacheLastUpdate, mutexWriter, callData,
                   callErr, fetchCount, wall, written,
                   refreshVars, parseVars, stampVars, lastVars, httpVars>>

\* cache.mutex.RUnlock() of a caller that found no fresh data
RUnlock(c) ==
    /\ callPc[c] = "runlock"
    /\ mutexReaders' = mutexReaders \ {c}
    /\ callPc' = [callPc EXCEPT ![c] = "fetch"]
    /\ UNCHANGED <<sourceVars, cacheData, cacheLastUpdate, mutexWriter, callData, callLastUpdate,
                   callErr, fetchCount, wall, written,
                   refreshVars, parseVars, stampVars, lastVars, httpVars>>

\* data, err := FetchWaterData(): the request goes out
FetchStart(c) ==
    /\ callPc[c] = "fetch"
    /\ fetchCount < MaxFetches
    /\ fetchCount' = fetchCount + 1
    /\ callData' = [callData EXCEPT ![c] = fetchCount + 1]
    /\ callPc' = [callPc EXCEPT ![c] = "fetching"]
    /\ UNCHANGED <<sourceVars, cacheData, cacheLastUpdate, mutexReaders, mutexWriter, callLastUpdate,
                   callErr, wall, written,
                   refreshVars, parseVars, stampVars, lastVars, httpVars>>

\* FetchWaterData returns: if err != nil { return nil, time.Time{}, err }
FetchEnd(c) ==
    /\ callPc[c] = "fetching"
    /\ \E ok \in BOOLEAN :
          IF ok
          THEN /\ callPc' = [callPc EXCEPT ![c] = "lock"]
               /\ UNCHANGED <<callData, callErr>>
          ELSE /\ callPc' = [callPc EXCEPT ![c] = "failed"]
               /\ callData' = [callData EXCEPT ![c] = NilData]
               /\ callErr' = [callErr EXCEPT ![c] = "fetch"]
    /\ UNCHANGED <<sourceVars, cacheData, cacheLastUpdate, mutexReaders, mutexWriter, callLastUpdate,
                   fetchCount, wall, written,
                   refreshVars, parseVars, stampVars, lastVars, httpVars>>

\* cache.mutex.Lock() that does not wait for the readers to leave
LockBesideReaders(c) ==
    /\ callPc[c] = "lock"
    /\ mutexWriter = NoCaller
    /\ mutexWriter' = c
    /\ callPc' = [callPc EXCEPT ![c] = "setData"]
    /\ UNCHANGED <<sourceVars, cacheData, cacheLastUpdate, mutexReaders, callData, callLastUpdate,
                   callErr, fetchCount, wall, written,
                   refreshVars, parseVars, stampVars, lastVars, httpVars>>

\* cache.mutex.Lock(): waits until no reader and no writer holds the mutex
Lock(c) ==
    /\ callPc[c] = "lock"
    /\ mutexWriter = NoCaller
    /\ mutexReaders = {}
    /\ mutexWriter' = c
    /\ callPc' = [callPc EXCEPT ![c] = "setData"]
    /\ UNCHANGED <<sourceVars, cacheData, cacheLastUpdate, mutexReaders, callData, callLastUpdate,
                   callErr, fetchCount, wall, written,
                   refreshVars, parseVars, stampVars, lastVars, httpVars>>

\* cache.data = data
SetData(c) ==
    /\ callPc[c] = "setData"
    /\ cacheData' = callData[c]
    /\ callPc' = [callPc EXCEPT ![c] = "setLastUpdate"]
    /\ UNCHANGED <<sourceVars, cacheLastUpdate, mutexReaders, mutexWriter, callData, callLastUpdate,
                   callErr, fetchCount, wall, written,
                   refreshVars, parseVars, stampVars, lastVars, httpVars>>

\* cache.lastUpdate = time.Now(); lastUpdate := cache.lastUpdate
SetLastUpdate(c) ==
    /\ callPc[c] = "setLastUpdate"
    /\ cacheLastUpdate' = wall
    /\ callLastUpdate' = [callLastUpdate EXCEPT ![c] = wall]
    /\ written' = written \cup {<<cacheData, wall>>}
    /\ callPc' = [callPc EXCEPT ![c] = "unlock"]
    /\ UNCHANGED <<sourceVars, cacheData, mutexReaders, mutexWriter, callData,
                   callErr, fetchCount, wall,
                   refreshVars, parseVars, stampVars, lastVars, httpVars>>

\* cache.mutex.Unlock(); return data, lastUpdate, nil
Unlock(c) ==
    /\ callPc[c] = "unlock"
    /\ mutexWriter' = NoCaller
    /\ callPc' = [callPc EXCEPT ![c] = "stored"]
    /\ UNCHANGED <<sourceVars, cacheData, cacheLastUpdate, mutexReaders, callData, callLastUpdate,
                   callErr, fetchCount, wall, written,
                   refreshVars, parseVars, stampVars, lastVars, httpVars>>

\* the caller has its result; it may call again
CallAgain(c) ==
    /\ callPc[c] \in {"served", "stored", "failed"}
    /\ callPc' = [callPc EXCEPT ![c] = "idle"]
    /\ UNCHANGED <<sourceVars, cacheData, cacheLastUpdate, mutexReaders, mutexWriter, callData,
                   callLastUpdate, callErr, fetchCount, wall, written,
                   refreshVars, parseVars, stampVars, lastVars, httpVars>>

\* half an hour passes
HalfHour ==
    /\ wall < MaxWall
    /\ wall' = wall + 1
    /\ UNCHANGED <<sourceVars, cacheData, cacheLastUpdate, mutexReaders, mutexWriter, callPc, callData,
                   callLastUpdate, callErr, fetchCount, written,
                   refreshVars, parseVars, stampVars, lastVars, httpVars>>

NextCache ==
    \/ HalfHour
    \/ \E c \in Callers :
          \/ RLock(c)
          \/ CheckFresh(c)
          \/ ReadData(c)
          \/ ReadLastUpdate(c)
          \/ RUnlock(c)
          \/ FetchStart(c)
          \/ FetchEnd(c)
          \/ Lock(c)
          \/ SetData(c)
          \/ SetLastUpdate(c)
          \/ Unlock(c)
          \/ CallAgain(c)

SpecCache == Init /\ [][NextCache]_vars

\* the callers that hold the pair they were served from the cache
Served == {c \in Callers : callPc[c] = "served"}

\* C27: a caller served from the cache gets a (data, lastUpdate) pair that
\* one single store wrote; the mutex is held for writing only by a caller
\* that is replacing the pair, never by one that is fetching, and never
\* while a reader holds it.
C27_CachePairConsistent ==
    /\ \A c \in Served : <<callData[c], callLastUpdate[c]>> \in written
    /\ \A c \in Callers :
          /\ (mutexWriter = c) <=> (callPc[c] \in {"setData", "setLastUpdate", "unlock"})
          /\ (c \in mutexReaders) <=> (callPc[c] \in {"check", "readData", "readLastUpdate", "runlock"})
    /\ (mutexWriter # NoCaller) => (mutexReaders = {})

\* a caller is served the second pair stored while another replaces it
C27_Witness ==
    \E c \in Served, d \in Callers :
        /\ callData[c] = 2
        /\ callPc[d] \in {"fetching", "lock"}
        /\ Cardinality(written) >= 2

ZeroInstant(t) ==
    /\ t.year = 1 /\ t.month = 1 /\ t.day = 1
    /\ t.hour = 0 /\ t.minute = 0 /\ t.second = 0

\* SELECT MAX(timestamp) is NULL (the table has no row) or the empty text
NoTimestamp(str) == ~str.Valid \/ str.String = <<>>

NowAt(k) == Time(Utc7.civil + k, 0)

\* ExtractTimestamp and the bulletin-time search of FetchRhmzRsData: the
\* page's bulletin time, or time.Now() when the phrase is not read
StampOf(p, bulletin) == IF phrase[p] THEN bulletin ELSE NowAt(ticks)

\* data, err := uc.scraper.FetchWaterData() on the unchanged primary page
FetchPrimarySame(w) ==
    /\ pc[w] = "fetchPrimary"
    /\ data' = [data EXCEPT ![w] = <<Dunav("S1", "100", StampOf("primary", Belgrade8)),
                                     Dunav("S2", "100", StampOf("primary", Belgrade8))>>]
    /\ pc' = [pc EXCEPT ![w] = "fetchGradac"]
    /\ UNCHANGED <<sourceVars, cacheVars, httpVars, lastVars, stampVars, parseVars, db, writer,
                   gradacData, rhmzRsData, failed, idx, tx, err, cronStarted, ticks, reply>>

\* gradacData, err := uc.scraper.FetchGradacRiverData() on the unchanged
\* single-station page, whose rows carry their own date and time
FetchGradacSame(w) ==
    /\ pc[w] = "fetchGradac"
    /\ \E recs \in GradacResults :
          /\ gradacData' = [gradacData EXCEPT ![w] = recs]
          /\ data' = [data EXCEPT ![w] = @ \o recs]
    /\ pc' = [pc EXCEPT ![w] = "fetchRhmzRs"]
    /\ UNCHANGED <<sourceVars, cacheVars, httpVars, lastVars, stampVars, parseVars, db, writer,
                   rhmzRsData, failed, idx, tx, err, cronStarted, ticks, reply>>

\* rhmzRsData, err := uc.scraper.FetchRhmzRsData() on the unchanged bulletin
FetchRhmzRsSame(w) ==
    /\ pc[w] = "fetchRhmzRs"
    /\ LET recs == <<RiverData("VRBAS", "BANJA LUKA", "200", "-3", "", "12", "falling",
                               StampOf("rhmzrs", Sarajevo9))>>
       IN  /\ rhmzRsData' = [rhmzRsData EXCEPT ![w] = recs]
           /\ data' = [data EXCEPT ![w] = @ \o recs]
    /\ pc' = [pc EXCEPT ![w] = "save"]
    /\ UNCHANGED <<sourceVars, cacheVars, httpVars, lastVars, stampVars, parseVars, db, writer,
                   gradacData, failed, idx, tx, err, cronStarted, ticks, reply>>

InitSame ==
    /\ InitRefresh
    /\ InitParse
    /\ InitStamp
    /\ InitLast
    /\ InitHttp
    /\ InitCache
    /\ phrase \in [BulletinPages -> BOOLEAN]

NextSame ==
    \/ CronStart
    \/ \E w \in Workers :
          \/ Tick(w)
          \/ FetchPrimarySame(w)
          \/ FetchGradacSame(w)
          \/ FetchRhmzRsSame(w)
          \/ BeginPrepare(w)
          \/ Exec(w)
          \/ Commit(w)
          \/ Return(w)

SpecSame == InitSame /\ [][NextSame]_vars

\* C28: over unchanged source pages a second RefreshRiverData leaves the
\* rows as the first left them: once the initial run has filled the store,
\* no step of the run the first tick starts changes the set of rows,
\* whether or not a page's time phrase is read.
C28_RefreshIdempotent ==
    [][(db.rows # {} /\ ticks = 1) => db'.rows = db.rows]_vars

============================================================================
